--------------------------- MODULE NonAbBootProofs ---------------------------
(***************************************************************************)
(* Proofs about NonAbBoot for every number of images and power cuts: type  *)
(* correctness; recovery is whole when it is started; and, as long as a    *)
(* trial is not disturbed by another flash, the device is not bricked, the *)
(* first copy is replaced only by what has been tried, and the result of a *)
(* check is true.                                                          *)
(***************************************************************************)
EXTENDS NonAbBootProperties, SequenceTheorems, TLAPS

-----------------------------------------------------------------------------
(* The inductive invariant.                                                *)

Step == env.fastboot_step
Status == env.reboot_status

\* A copy is being written; a copy is torn and nothing repairs it.
InProgress(c) == writes # <<>> /\ Head(writes).dst = c
Damaged(c) == copies[c] = Torn /\ ~InProgress(c)

Writing == {"write_boot", "flash", "check_fastboot_step", "robust_update"}
Early == {"rom", "bricked", "aml_update_env", "fastboot_step_check"}
Update == {"non_ab_update", "recovery_update", "recovery_saved", "check"}
Booting == {"aml_update_env", "fastboot_step_check"} \cup Update

\* What holds whatever the power does: past fastboot_step_check a trial runs from
\* another copy than the first.
General ==
    /\ writes # <<>> => pc \in Writing
    /\ next => pc \in {"rom", "bricked"}
    /\ Step = 2 /\ pc \notin Early => idx # First
    /\ Step = 1 => pc \in Early \cup {"fastboot", "flash", "set_fastboot_step"}
    /\ pc \in {"flash", "set_fastboot_step"} => Step # 2
    /\ pc = "check_fastboot_step" /\ ~gpt => \A i \in DOMAIN writes : writes[i].dst # 1

\* The flash of a bootloader without a GPT writes boot0 and then boot1.
FlashForm ==
    \/ writes = <<Write(bootloader_up, 1), Write(bootloader_up, 2)>>
    \/ writes = <<Write(bootloader_up, 2)>> /\ copies[1] = bootloader_up
    \/ writes = <<>> /\ copies[1] = copies[2]

\* Before the first power cut the first copy is good, or is being replaced by one that
\* has been tried or checked; the three protocols do not overlap.
FirstKept ==
    /\ pc # "bricked"
    /\ copies[First] \in accepted \/ InProgress(First)
    /\ \A i \in DOMAIN writes : writes[i].dst = First => writes[i].img \in accepted
    /\ env.write_boot => /\ bootloader_up \in accepted /\ Step = 0
                         /\ pc \in {"rom", "aml_update_env", "fastboot_step_check",
                                  "non_ab_update", "write_boot"}
    /\ Status # "init" => /\ Step = 0
                          /\ pc \notin {"cli", "switch_bootmode", "kernel", "fastboot",
                                        "flash", "set_fastboot_step"}
    /\ pc \in {"recovery", "check_failed", "robust_update", "cli", "write_boot"} => Step = 0
    /\ next => (Step = 2 \/ Status = "finish") /\ mode \in {"normal", "fastboot"}
    /\ idx # First /\ pc \notin {"rom", "recovery", "check_failed", "robust_update"}
         => Step = 2 \/ (Status = "finish" /\ pc \in Booting \cup {"write_boot"})
    /\ idx # First /\ pc \in Booting \cup {"switch_bootmode"} => mode \in {"normal", "fastboot"}
    /\ Step = 2 /\ pc \notin {"rom", "check_fastboot_step"} => copies[idx] \in accepted
    /\ ~gpt => /\ pc = "flash" => FlashForm
               /\ (\/ pc = "set_fastboot_step"
                   \/ Step # 0 /\ pc \notin {"flash", "check_fastboot_step"})
                  => copies[1] = copies[2]

\* When no bootloader is bad, the first power cut leaves at most one copy damaged, and
\* a trial that finds the copy to be tried damaged never ends in fastboot.
OneDamaged ==
    /\ pc # "bricked"
    /\ bootloader_up \in Builds
    /\ \A i \in DOMAIN writes : writes[i].img \in Builds
    /\ \A c, d \in 0..2 : Damaged(c) /\ Damaged(d) => c = d
    /\ cuts = 0 => \A c \in 0..2 : ~Damaged(c)
    /\ pc # "rom" => ~Damaged(idx)
    /\ pc \in {"flash", "set_fastboot_step"} => gpt \/ ~Damaged(1)
    /\ ~gpt /\ Damaged(1) /\ Step # 0 =>
         /\ ~env.write_boot /\ Status = "init"
         /\ \/ /\ Step = 1 /\ mode = "cold_boot" /\ ~next
               /\ pc \in {"rom", "aml_update_env", "fastboot_step_check"}
            \/ /\ Step = 2
               /\ pc \in Booting \cup {"rom", "switch_bootmode", "kernel"}
               /\ pc \in Booting \cup {"switch_bootmode"} => idx = First \/ mode = "normal"
               /\ next => mode = "normal"

TypeInv == TypeOK /\ idx \in Copies

IInv ==
    /\ TypeInv
    /\ General
    /\ cuts = 0 => FirstKept
    /\ cuts <= 1 /\ accepted = Builds => OneDamaged

-----------------------------------------------------------------------------
(* The lists of writes.                                                    *)

Writes == Seq([img : Images, dst : 0..2])

LEMMA Constants ==
    /\ MaxGen \in Nat \ {0} /\ MaxCuts \in Nat /\ FlashOnTrial \in BOOLEAN
    /\ Builds \subseteq Images /\ Torn \in Images /\ Torn \notin Builds
  BY NonAbAssumption DEF Builds, Images, Torn

LEMMA OneWrite ==
    ASSUME NEW w \in [img : Images, dst : 0..2]
    PROVE  /\ <<w>> \in Writes
           /\ <<w>> # <<>> /\ Head(<<w>>) = w /\ Tail(<<w>>) = <<>>
           /\ DOMAIN <<w>> = {1} /\ <<w>>[1] = w
  BY DEF Writes

LEMMA TwoWrites ==
    ASSUME NEW v \in [img : Images, dst : 0..2], NEW w \in [img : Images, dst : 0..2]
    PROVE  /\ <<v, w>> \in Writes
           /\ <<v, w>> # <<>> /\ Head(<<v, w>>) = v /\ Tail(<<v, w>>) = <<w>>
           /\ DOMAIN <<v, w>> = {1, 2} /\ <<v, w>>[1] = v /\ <<v, w>>[2] = w
  BY DEF Writes

LEMMA WriteType ==
    ASSUME NEW img \in Images, NEW dst \in 0..2
    PROVE  /\ Write(img, dst) \in [img : Images, dst : 0..2]
           /\ Write(img, dst).img = img /\ Write(img, dst).dst = dst
  BY DEF Write

LEMMA ConcatWrites ==
    ASSUME NEW s \in Writes, NEW t \in Writes
    PROVE  /\ s \o t \in Writes
           /\ s # <<>> => s \o t # <<>> /\ Head(s \o t) = Head(s)
           /\ \A i \in DOMAIN (s \o t) : \/ \E j \in DOMAIN s : (s \o t)[i] = s[j]
                                         \/ \E j \in DOMAIN t : (s \o t)[i] = t[j]
  <1> DEFINE T == [img : Images, dst : 0..2]
  <1> HIDE DEF T
  <1>1. s \in Seq(T) /\ t \in Seq(T)
    BY DEF Writes, T
  <1>2. /\ s \o t \in Seq(T)
        /\ Len(s \o t) = Len(s) + Len(t)
        /\ \A i \in 1..Len(s) + Len(t) : (s \o t)[i] = IF i <= Len(s) THEN s[i] ELSE t[i - Len(s)]
    BY <1>1, ConcatProperties
  <1>3. /\ Len(s) \in Nat /\ DOMAIN s = 1..Len(s)
        /\ Len(t) \in Nat /\ DOMAIN t = 1..Len(t)
        /\ DOMAIN (s \o t) = 1..Len(s) + Len(t)
    BY <1>1, <1>2, LenProperties
  <1>4. ASSUME NEW i \in DOMAIN (s \o t)
        PROVE  \/ \E j \in DOMAIN s : (s \o t)[i] = s[j]
               \/ \E j \in DOMAIN t : (s \o t)[i] = t[j]
    <2>1. i \in 1..Len(s) + Len(t)
      BY <1>3
    <2>2. CASE i <= Len(s)
      BY <2>1, <2>2, <1>2, <1>3
    <2>3. CASE ~(i <= Len(s))
      <3>1. i - Len(s) \in 1..Len(t)
        BY <2>1, <2>3, <1>3
      <3> QED BY <2>1, <2>3, <3>1, <1>2, <1>3
    <2> QED BY <2>2, <2>3
  <1>5. s # <<>> => s \o t # <<>> /\ Head(s \o t) = Head(s)
    BY <1>1, <1>2, <1>3, EmptySeq
  <1> QED BY <1>2, <1>4, <1>5 DEF Writes, T

LEMMA FirstWriteDone ==
    ASSUME NEW s \in Writes, s # <<>>
    PROVE  /\ Head(s) \in [img : Images, dst : 0..2]
           /\ \E j \in DOMAIN s : Head(s) = s[j]
           /\ Tail(s) \in Writes
           /\ \A i \in DOMAIN Tail(s) : \E j \in DOMAIN s : Tail(s)[i] = s[j]
  <1> DEFINE T == [img : Images, dst : 0..2]
  <1> HIDE DEF T
  <1>1. s \in Seq(T)
    BY DEF Writes, T
  <1>2. /\ Head(s) \in T
        /\ Tail(s) \in Seq(T)
        /\ Len(Tail(s)) = Len(s) - 1
        /\ \A i \in 1..Len(Tail(s)) : Tail(s)[i] = s[i + 1]
    BY <1>1, HeadTailProperties
  <1>3. Len(s) \in Nat \ {0} /\ DOMAIN s = 1..Len(s) /\ DOMAIN Tail(s) = 1..Len(Tail(s))
    BY <1>1, <1>2, LenProperties, EmptySeq
  <1>4. \A i \in DOMAIN Tail(s) : i + 1 \in DOMAIN s /\ Tail(s)[i] = s[i + 1]
    BY <1>2, <1>3
  <1>5. 1 \in DOMAIN s /\ Head(s) = s[1]
    BY <1>1, <1>3
  <1> QED BY <1>2, <1>4, <1>5 DEF Writes, T

\* A flash writes the new image only, and the first copy only while another one runs.
LEMMA FlashWritesOk ==
    ASSUME TypeOK, idx \in Copies, NEW img \in Images
    PROVE  /\ FlashWrites(img) \in Writes
           /\ FlashWrites(img) # <<>>
           /\ \A i \in DOMAIN FlashWrites(img) : /\ FlashWrites(img)[i].img = img
                                                 /\ FlashWrites(img)[i].dst = First => idx # First
           /\ ~gpt => Head(FlashWrites(img)).dst = 1
           /\ idx = First /\ ~gpt => FlashWrites(img) = <<Write(img, 1), Write(img, 2)>>
  <1> DEFINE s == IF gpt THEN <<Write(img, 2)>> ELSE <<Write(img, 1), Write(img, 2)>>
             t == IF idx = First THEN <<>> ELSE <<Write(img, First)>>
  <1>1. \A d \in 0..2 : /\ Write(img, d) \in [img : Images, dst : 0..2]
                        /\ Write(img, d).img = img /\ Write(img, d).dst = d
    BY WriteType
  <1>2. First \in 0..2 /\ (gpt => First = 1) /\ (~gpt => First = 0)
    BY DEF First
  <1>3. /\ s \in Writes /\ s # <<>>
        /\ \A i \in DOMAIN s : s[i].img = img /\ s[i].dst # First
        /\ ~gpt => Head(s).dst = 1
    <2>1. CASE gpt
      BY <1>1, <1>2, <2>1, OneWrite
    <2>2. CASE ~gpt
      <3> DEFINE v == Write(img, 1)
                 w == Write(img, 2)
      <3>1. /\ v \in [img : Images, dst : 0..2] /\ v.img = img /\ v.dst # First
            /\ v.dst = 1
            /\ w \in [img : Images, dst : 0..2] /\ w.img = img /\ w.dst # First
        BY <1>1, <1>2, <2>2
      <3>2. s = <<v, w>>
        BY <2>2
      <3> HIDE DEF v, w, s
      <3>3. /\ s \in Writes /\ s # <<>>
            /\ DOMAIN s = {1, 2} /\ s[1] = v /\ s[2] = w /\ Head(s) = v
        BY <3>1, <3>2, TwoWrites
      <3> QED BY <3>1, <3>3
    <2> QED BY <2>1, <2>2
  <1>4. /\ t \in Writes
        /\ \A i \in DOMAIN t : t[i].img = img /\ idx # First
    <2>1. CASE idx = First
      BY <2>1, EmptySeq DEF Writes
    <2>2. CASE idx # First
      BY <1>1, <1>2, <2>2, OneWrite
    <2> QED BY <2>1, <2>2
  <1>5. FlashWrites(img) = s \o t
    BY DEF FlashWrites
  <1>6. idx = First /\ ~gpt => s \o t = <<Write(img, 1), Write(img, 2)>>
    <2> SUFFICES ASSUME idx = First, ~gpt
                 PROVE  s \o t = <<Write(img, 1), Write(img, 2)>>
      OBVIOUS
    <2>1. s = <<Write(img, 1), Write(img, 2)>> /\ t = <<>>
      OBVIOUS
    <2>2. s \o <<>> = s
      BY <1>3, ConcatEmptySeq DEF Writes
    <2> QED BY <2>1, <2>2
  <1> HIDE DEF s, t
  <1> QED BY <1>3, <1>4, <1>5, <1>6, ConcatWrites

\* The end of a trial writes the copy that runs, or its twin, over the others.
LEMMA TrialCopiesOk ==
    ASSUME TypeOK
    PROVE  /\ TrialCopies \in Writes
           /\ TrialCopies # <<>>
           /\ \A i \in DOMAIN TrialCopies : /\ TrialCopies[i].img = copies[IF gpt THEN 2 ELSE 1]
                                            /\ ~gpt => TrialCopies[i].dst # 1
  <1>1. copies[1] \in Images /\ copies[2] \in Images
    BY DEF TypeOK
  <1>2. \A c \in 1..2, d \in 0..2 : /\ Write(copies[c], d) \in [img : Images, dst : 0..2]
                                    /\ Write(copies[c], d).img = copies[c]
                                    /\ Write(copies[c], d).dst = d
    BY <1>1, WriteType
  <1>3. CASE gpt
    BY <1>2, <1>3, OneWrite DEF TrialCopies
  <1>4. CASE ~gpt
    <2> DEFINE v == Write(copies[1], 0)
               w == Write(copies[1], 2)
    <2>1. /\ v \in [img : Images, dst : 0..2] /\ v.img = copies[1] /\ v.dst # 1
          /\ w \in [img : Images, dst : 0..2] /\ w.img = copies[1] /\ w.dst # 1
      BY <1>2
    <2>2. TrialCopies = <<v, w>>
      BY <1>4 DEF TrialCopies
    <2> HIDE DEF v, w
    <2>3. /\ TrialCopies \in Writes /\ TrialCopies # <<>>
          /\ DOMAIN TrialCopies = {1, 2} /\ TrialCopies[1] = v /\ TrialCopies[2] = w
      BY <2>1, <2>2, TwoWrites
    <2> QED BY <1>4, <2>1, <2>3
  <1> QED BY <1>3, <1>4

-----------------------------------------------------------------------------
(* The environment.                                                        *)

\* What the invariant reads of it.
Requests(e) == <<e.write_boot, e.fastboot_step, e.reboot_status>>

LEMMA DefaultRequests ==
    DefaultEnv \in Env /\ Requests(DefaultEnv) = <<FALSE, 0, "init">>
  BY DEF DefaultEnv, Env, Requests

LEMMA ReservedRequests ==
    ASSUME NEW e \in Env
    PROVE  /\ Reserved(e) \in Env
           /\ Requests(Reserved(e)) = <<FALSE, e.fastboot_step, e.reboot_status>>
  <1>1. ASSUME NEW up \in 0..2, NEW step \in 0..2, NEW i \in 0..2,
               NEW status \in {"init", "next", "finish", "end"}
        PROVE  LET t == [DefaultEnv EXCEPT !.upgrade_step = up, !.fastboot_step = step,
                                           !.reboot_status = status, !.expect_index = i]
               IN  t \in Env /\ Requests(t) = <<FALSE, step, status>>
    <2>1. DefaultEnv \in Env /\ DefaultEnv.write_boot = FALSE
      BY DEF DefaultEnv, Env
    <2> QED BY <2>1 DEF Env, Requests
  <1>2. e.fastboot_step \in 0..2 /\ e.expect_index \in 0..2
        /\ e.reboot_status \in {"init", "next", "finish", "end"}
    BY DEF Env
  <1>3. 2 \in 0..2
    OBVIOUS
  <1> QED BY <1>1, <1>2, <1>3, Zenon DEF Reserved

LEMMA TrialRequests ==
    ASSUME NEW e \in Env, NEW step \in 0..2
    PROVE  LET t == [e EXCEPT !.update_env = TRUE, !.fastboot_step = step]
           IN  t \in Env /\ Requests(t) = <<e.write_boot, step, e.reboot_status>>
  BY DEF Env, Requests

LEMMA StepRequests ==
    ASSUME NEW e \in Env, NEW step \in 0..2
    PROVE  LET t == [e EXCEPT !.fastboot_step = step]
           IN  t \in Env /\ Requests(t) = <<e.write_boot, step, e.reboot_status>>
  BY DEF Env, Requests

LEMMA StatusRequests ==
    ASSUME NEW e \in Env, NEW status \in {"init", "next", "finish", "end"}
    PROVE  LET t == [e EXCEPT !.reboot_status = status]
           IN  t \in Env /\ Requests(t) = <<e.write_boot, e.fastboot_step, status>>
  BY DEF Env, Requests

LEMMA OtherRequests ==
    ASSUME NEW e \in Env, NEW b \in BOOLEAN
    PROVE  LET t == [e EXCEPT !.recovery_need_update = b]
               d == [e EXCEPT !.default_env = TRUE]
               r == [e EXCEPT !.check_result = "bootloader_fail"]
           IN  /\ t \in Env /\ Requests(t) = Requests(e)
               /\ d \in Env /\ Requests(d) = Requests(e)
               /\ r \in Env /\ Requests(r) = Requests(e)
  BY DEF Env, Requests

LEMMA WrittenRequests ==
    ASSUME NEW e \in Env, NEW step \in 0..2
    PROVE  LET t == [e EXCEPT !.write_boot = FALSE, !.upgrade_step = step]
               w == [e EXCEPT !.write_boot = TRUE]
           IN  /\ t \in Env /\ Requests(t) = <<FALSE, e.fastboot_step, e.reboot_status>>
               /\ w \in Env /\ Requests(w) = <<TRUE, e.fastboot_step, e.reboot_status>>
  BY DEF Env, Requests

LEMMA RobustRequests ==
    ASSUME NEW e \in Env, NEW c \in 0..2, NEW step \in 0..2,
           NEW status \in {"init", "next", "finish", "end"}
    PROVE  LET t == [e EXCEPT !.reboot_status = status, !.expect_index = c,
                              !.upgrade_step = step]
           IN  t \in Env /\ Requests(t) = <<e.write_boot, e.fastboot_step, status>>
  BY DEF Env, Requests

\* What the next step leaves of the requests.
After(write, step, status) == env' \in Env /\ Requests(env)' = <<write, step, status>>

LEMMA BootRequests ==
    ASSUME env \in Env
    PROVE  /\ aml_update_env => After(env.write_boot, Step, Status)
           /\ StartTrial => After(env.write_boot, 2, Status)
           /\ TrialFailed => After(env.write_boot, 0, Status)
           /\ recovery_update => After(env.write_boot, Step, Status)
           /\ NoSecureCheck => After(env.write_boot, Step, "init")
           /\ StartCheck => After(env.write_boot, Step, "finish")
           /\ FinishCheck => After(env.write_boot, Step, "end")
           /\ CheckFails => After(env.write_boot, Step, Status)
  <1>1. 0 \in 0..2 /\ 2 \in 0..2 /\ Requests(env) = <<env.write_boot, Step, Status>>
    BY DEF Requests, Step, Status
  <1>2. env.write_boot \in BOOLEAN
    BY DEF Env
  <1>3. aml_update_env => After(env.write_boot, Step, Status)
    BY <1>1, <1>2, ReservedRequests DEF aml_update_env, After, Requests, Step, Status
  <1>4. StartTrial => After(env.write_boot, 2, Status)
    BY <1>1, TrialRequests DEF StartTrial, TrialStep, After, Requests, Status
  <1>5. TrialFailed => After(env.write_boot, 0, Status)
    BY <1>1, StepRequests DEF TrialFailed, After, Requests, Status
  <1>6. recovery_update => After(env.write_boot, Step, Status)
    BY <1>1, OtherRequests
       DEF recovery_update, SkipRecovery, StartRecoveryUpdate, FinishRecoveryUpdate,
           ClearRecoveryNeedUpdate, Requested, After, Requests, Step, Status
  <1>7. /\ NoSecureCheck => After(env.write_boot, Step, "init")
        /\ StartCheck => After(env.write_boot, Step, "finish")
        /\ FinishCheck => After(env.write_boot, Step, "end")
    <2>1. ASSUME NEW status \in {"init", "next", "finish", "end"}
          PROVE  env' = [env EXCEPT !.reboot_status = status]
                 => After(env.write_boot, Step, status)
      <3> DEFINE t == [env EXCEPT !.reboot_status = status]
      <3>1. t \in Env /\ Requests(t) = <<env.write_boot, env.fastboot_step, status>>
        BY StatusRequests
      <3> HIDE DEF t
      <3>2. env' = t => After(env.write_boot, Step, status)
        BY <3>1 DEF After, Requests, Step
      <3> QED BY <3>2 DEF t
    <2> QED BY <2>1 DEF NoSecureCheck, StartCheck, FinishCheck
  <1>8. CheckFails => After(env.write_boot, Step, Status)
    BY <1>1, OtherRequests DEF CheckFails, After, Requests, Step, Status
  <1> QED BY <1>3, <1>4, <1>5, <1>6, <1>7, <1>8

LEMMA RequestRequests ==
    ASSUME env \in Env
    PROVE  /\ FinishWriteBoot => After(FALSE, Step, Status)
           /\ set_default_env => After(env.write_boot, Step, Status)
           /\ set_fastboot_step => After(env.write_boot, 1, Status)
           /\ check_fastboot_step => After(env.write_boot, 0, Status)
           /\ RequestRecoveryUpdate => After(env.write_boot, Step, Status)
           /\ RequestWriteBoot => After(TRUE, Step, Status)
           /\ FinishRobustUpdate => After(env.write_boot, Step, "next")
           /\ PowerCut => \/ After(env.write_boot, Step, Status)
                          \/ After(FALSE, 0, "init")
  <1>1. /\ 0 \in 0..2 /\ 1 \in 0..2 /\ \A c \in 1..2 : c \in 0..2
        /\ Requests(env) = <<env.write_boot, Step, Status>>
    BY DEF Requests, Step, Status
  <1>2. FinishWriteBoot => After(FALSE, Step, Status)
    <2>1. ASSUME NEW step \in 0..2
          PROVE  env' = [env EXCEPT !.write_boot = FALSE, !.upgrade_step = step]
                 => After(FALSE, Step, Status)
      <3> DEFINE t == [env EXCEPT !.write_boot = FALSE, !.upgrade_step = step]
      <3>1. t \in Env /\ Requests(t) = <<FALSE, env.fastboot_step, env.reboot_status>>
        BY WrittenRequests
      <3> HIDE DEF t
      <3>2. env' = t => After(FALSE, Step, Status)
        BY <3>1 DEF After, Requests, Step, Status
      <3> QED BY <3>2 DEF t
    <2> QED BY <1>1, <2>1 DEF FinishWriteBoot
  <1>3. set_default_env => After(env.write_boot, Step, Status)
    BY <1>1, OtherRequests DEF set_default_env, After, Requests, Step, Status
  <1>4. /\ set_fastboot_step => After(env.write_boot, 1, Status)
        /\ check_fastboot_step => After(env.write_boot, 0, Status)
    BY <1>1, StepRequests DEF set_fastboot_step, check_fastboot_step, After, Requests, Status
  <1>5. RequestRecoveryUpdate => After(env.write_boot, Step, Status)
    BY <1>1, OtherRequests DEF RequestRecoveryUpdate, After, Requests, Step, Status
  <1>6. RequestWriteBoot => After(TRUE, Step, Status)
    BY <1>1, WrittenRequests DEF RequestWriteBoot, After, Requests, Step, Status
  <1>7. FinishRobustUpdate => After(env.write_boot, Step, "next")
    <2>1. ASSUME NEW c \in 0..2, NEW step \in 0..2,
                 NEW status \in {"init", "next", "finish", "end"}
          PROVE  env' = [env EXCEPT !.reboot_status = status, !.expect_index = c,
                                    !.upgrade_step = step]
                 => After(env.write_boot, Step, status)
      <3> DEFINE t == [env EXCEPT !.reboot_status = status, !.expect_index = c,
                                  !.upgrade_step = step]
      <3>1. t \in Env /\ Requests(t) = <<env.write_boot, env.fastboot_step, status>>
        BY RobustRequests
      <3> HIDE DEF t
      <3>2. env' = t => After(env.write_boot, Step, status)
        BY <3>1 DEF After, Requests, Step
      <3> QED BY <3>2 DEF t
    <2> QED BY <1>1, <2>1 DEF FinishRobustUpdate
  <1>8. PowerCut => After(env.write_boot, Step, Status) \/ After(FALSE, 0, "init")
    BY <1>1, DefaultRequests DEF PowerCut, After, Requests, Step, Status
  <1> QED BY <1>2, <1>3, <1>4, <1>5, <1>6, <1>7, <1>8

-----------------------------------------------------------------------------
(* Type correctness.                                                       *)

LEMMA InitTypes == Init => TypeOK
  <1> SUFFICES ASSUME Init PROVE TypeOK
    OBVIOUS
  <1>1. DefaultEnv \in Env /\ <<>> \in Seq([img : Images, dst : 0..2])
    BY DefaultRequests, EmptySeq
  <1>2. 1 \in Builds /\ 1 \in Images /\ 1 \in 1..MaxGen /\ 0 \in 0..MaxCuts
    BY Constants DEF Builds, Images
  <1> QED BY <1>1, <1>2, Constants DEF Init, TypeOK, First

\* The steps of the boot that write no bootloader.
Boot == \/ BootRom \/ BootRomFails \/ aml_update_env \/ fastboot_step_check
        \/ recovery_update \/ NoSecureCheck \/ StartCheck \/ FinishCheck \/ CheckFails
        \/ switch_bootmode

\* The end of a list of writes, and what users and the systems ask for.
Request == \/ FinishWriteBoot \/ set_default_env \/ set_fastboot_step \/ check_fastboot_step
           \/ UserReboots \/ StartFastboot \/ RequestRecoveryUpdate \/ RequestWriteBoot
           \/ FinishRobustUpdate

LEMMA NextBuild == TypeOK /\ gen < MaxGen => /\ gen + 1 \in 1..MaxGen
                                             /\ gen + 1 \in Builds /\ gen + 1 \in Images
  BY Constants DEF TypeOK, Builds, Images

LEMMA BootTypes == TypeOK /\ Boot => TypeOK'
  <1> SUFFICES ASSUME TypeOK, Boot PROVE TypeOK'
    OBVIOUS
  <1>1. CASE BootRom \/ BootRomFails
    <2>1. Usable \subseteq 0..2
      BY DEF Usable, Copies, First
    <2> QED BY <1>1, <2>1 DEF TypeOK, BootRom, BootRomFails, device, partitions
  <1>2. CASE aml_update_env
    BY <1>2, BootRequests DEF After, TypeOK, aml_update_env, device, partitions
  <1>3. CASE fastboot_step_check
    BY <1>3, BootRequests
       DEF After, TypeOK, fastboot_step_check, StartTrial, TrialFailed, NoFastbootStep, Reboot,
           device, partitions
  <1>4. CASE recovery_update
    BY <1>4, BootRequests, Constants
       DEF After, TypeOK, recovery_update, SkipRecovery, StartRecoveryUpdate,
           FinishRecoveryUpdate, ClearRecoveryNeedUpdate, device, partitions
  <1>5. CASE NoSecureCheck \/ StartCheck \/ FinishCheck \/ CheckFails
    BY <1>5, BootRequests
       DEF After, TypeOK, NoSecureCheck, StartCheck, FinishCheck, CheckFails, Reboot,
           device, partitions
  <1>6. CASE switch_bootmode
    BY <1>6 DEF TypeOK, switch_bootmode, device, partitions
  <1> QED BY <1>1, <1>2, <1>3, <1>4, <1>5, <1>6 DEF Boot

LEMMA RequestTypes == TypeOK /\ Request => TypeOK'
  <1> SUFFICES ASSUME TypeOK, Request PROVE TypeOK'
    OBVIOUS
  <1>1. CASE \/ FinishWriteBoot \/ set_default_env \/ set_fastboot_step \/ check_fastboot_step
    BY <1>1, RequestRequests
       DEF After, TypeOK, FinishWriteBoot, set_default_env, set_fastboot_step,
           check_fastboot_step, Reboot, device, partitions
  <1>2. CASE UserReboots \/ StartFastboot
    BY <1>2 DEF TypeOK, UserReboots, StartFastboot, Reboot, device, partitions
  <1>3. CASE RequestRecoveryUpdate \/ RequestWriteBoot
    <2>1. gen + 1 \in 1..MaxGen /\ gen + 1 \in Images
      BY <1>3, NextBuild DEF RequestRecoveryUpdate, RequestWriteBoot
    <2> QED BY <1>3, <2>1, RequestRequests
            DEF After, TypeOK, RequestRecoveryUpdate, RequestWriteBoot, Reboot, device, partitions
  <1>4. CASE FinishRobustUpdate
    BY <1>4, RequestRequests DEF After, TypeOK, FinishRobustUpdate, Reboot, device, partitions
  <1> QED BY <1>1, <1>2, <1>3, <1>4 DEF Request

\* The steps that start a list of writes, go on with one, or lose it.
LEMMA WriteTypes ==
    ASSUME TypeOK, idx \in Copies,
           \/ StartWriteBoot \/ write_bootloader \/ flash \/ FastbootReboot
           \/ StartRobustUpdate \/ PowerCut
    PROVE  TypeOK'
  <1>1. CASE StartWriteBoot
    <2>1. /\ Write(bootloader_up, 1) \in [img : Images, dst : 0..2]
          /\ Write(bootloader_up, 2) \in [img : Images, dst : 0..2]
      BY WriteType DEF TypeOK
    <2>2. WriteBootWrites \in Writes
      BY <2>1, TwoWrites DEF WriteBootWrites
    <2> QED BY <1>1, <2>2 DEF TypeOK, StartWriteBoot, Writes, device, partitions
  <1>2. CASE write_bootloader
    <2>1. Head(writes).dst \in 0..2 /\ Head(writes).img \in Images /\ Tail(writes) \in Writes
      BY <1>2, FirstWriteDone DEF TypeOK, Writes, write_bootloader
    <2> QED BY <1>2, <2>1, Constants DEF TypeOK, write_bootloader, Writes, device, partitions
  <1>3. CASE flash
    <2>1. gen + 1 \in 1..MaxGen /\ gen + 1 \in Images
      BY <1>3, NextBuild DEF flash
    <2>2. FlashWrites(gen + 1) \in Writes
      BY <2>1, FlashWritesOk
    <2> QED BY <1>3, <2>1, <2>2 DEF TypeOK, flash, Writes, device, partitions
  <1>4. CASE FastbootReboot
    <2>1. TrialCopies \in Writes
      BY TrialCopiesOk
    <2> QED BY <1>4, <2>1 DEF TypeOK, FastbootReboot, Reboot, Writes, device, partitions
  <1>5. CASE StartRobustUpdate
    <2>1. gen + 1 \in 1..MaxGen /\ gen + 1 \in Images
      BY <1>5, NextBuild DEF StartRobustUpdate
    <2>2. PICK c \in Usable \ {2} : writes' = <<Write(gen + 1, c + 1)>>
      BY <1>5 DEF StartRobustUpdate
    <2>3. c + 1 \in 0..2
      BY <2>2 DEF Usable, Copies, First
    <2>4. writes' \in Writes
      BY <2>1, <2>2, <2>3, WriteType, OneWrite
    <2> QED BY <1>5, <2>1, <2>4 DEF TypeOK, StartRobustUpdate, Writes, device, partitions
  <1>6. CASE PowerCut
    <2>1. cuts + 1 \in 0..MaxCuts
      BY <1>6, Constants DEF TypeOK, PowerCut
    <2>2. DefaultEnv \in Env
      BY DefaultRequests
    <2>3. <<>> \in Writes
      BY EmptySeq DEF Writes
    <2> QED BY <1>6, <2>1, <2>2, <2>3 DEF TypeOK, PowerCut, Reboot, Writes, device, partitions
  <1> QED BY <1>1, <1>2, <1>3, <1>4, <1>5, <1>6

LEMMA IdxOk == TypeOK /\ idx \in Copies /\ [Next]_vars => (idx \in Copies)'
  <1> SUFFICES ASSUME idx \in Copies, [Next]_vars PROVE (idx \in Copies)'
    OBVIOUS
  <1>1. gpt' = gpt
    BY DEF Next, UBoot, Outside, vars, device, fastboot_step_check, non_ab_update,
           recovery_update, BootRom, BootRomFails, aml_update_env, StartTrial, TrialFailed,
           NoFastbootStep, StartWriteBoot, FinishWriteBoot, SkipRecovery, StartRecoveryUpdate,
           FinishRecoveryUpdate, ClearRecoveryNeedUpdate, NoSecureCheck, StartCheck, FinishCheck,
           CheckFails, switch_bootmode, write_bootloader, set_default_env, set_fastboot_step,
           check_fastboot_step, flash, FastbootReboot, UserReboots, StartFastboot,
           RequestRecoveryUpdate, RequestWriteBoot, StartRobustUpdate, FinishRobustUpdate, PowerCut
  <1>2. idx' = idx \/ idx' \in Usable
    BY DEF Next, UBoot, Outside, vars, fastboot_step_check, non_ab_update,
           recovery_update, BootRom, BootRomFails, aml_update_env, StartTrial, TrialFailed,
           NoFastbootStep, StartWriteBoot, FinishWriteBoot, SkipRecovery, StartRecoveryUpdate,
           FinishRecoveryUpdate, ClearRecoveryNeedUpdate, NoSecureCheck, StartCheck, FinishCheck,
           CheckFails, switch_bootmode, write_bootloader, set_default_env, set_fastboot_step,
           check_fastboot_step, flash, FastbootReboot, UserReboots, StartFastboot,
           RequestRecoveryUpdate, RequestWriteBoot, StartRobustUpdate, FinishRobustUpdate, PowerCut
  <1> QED BY <1>1, <1>2 DEF Usable, Copies, First

LEMMA TypesKept == TypeInv /\ [Next]_vars => TypeInv'
  <1> SUFFICES ASSUME TypeInv, [Next]_vars PROVE TypeInv'
    OBVIOUS
  <1>1. CASE Boot
    BY <1>1, BootTypes, IdxOk DEF TypeInv
  <1>2. CASE Request
    BY <1>2, RequestTypes, IdxOk DEF TypeInv
  <1>3. CASE \/ StartWriteBoot \/ write_bootloader \/ flash \/ FastbootReboot
             \/ StartRobustUpdate \/ PowerCut
    BY <1>3, WriteTypes, IdxOk DEF TypeInv
  <1>4. CASE UNCHANGED vars
    BY <1>4 DEF TypeInv, TypeOK, vars, device, partitions, Copies, First
  <1> QED BY <1>1, <1>2, <1>3, <1>4 DEF Next, UBoot, Outside, Boot, Request, non_ab_update

\* Every variable keeps to its range for every number of images and power cuts:
\* fastboot_step is never above 2, and only existing copies are named to be written.
THEOREM NonAbTypeOK == Spec => []TypeOK
  <1>1. Init => TypeInv
    BY InitTypes DEF Init, TypeInv, Copies, First
  <1> QED BY <1>1, TypesKept, PTL DEF Spec, TypeInv

-----------------------------------------------------------------------------
(* What a step changes.                                                    *)

Asks(write, step, status) == env'.write_boot = write /\ Step' = step /\ Status' = status

LEMMA AfterAsks ==
    ASSUME NEW write, NEW step, NEW status, After(write, step, status)
    PROVE  Asks(write, step, status)
  BY DEF After, Asks, Requests, Step, Status

Still == UNCHANGED <<gpt, accepted, copies, bootloader_up, writes, cuts>>

LEMMA BootSteps ==
    ASSUME TypeInv
    PROVE  /\ Boot => Still
           /\ aml_update_env => Asks(env.write_boot, Step, Status)
           /\ StartTrial => Asks(env.write_boot, 2, Status)
           /\ TrialFailed => Asks(env.write_boot, 0, Status)
           /\ BootRom \/ BootRomFails \/ NoFastbootStep \/ switch_bootmode \/ recovery_update
                => Asks(env.write_boot, Step, Status)
           /\ NoSecureCheck => Asks(env.write_boot, Step, "init")
           /\ StartCheck => Asks(env.write_boot, Step, "finish")
           /\ FinishCheck => Asks(env.write_boot, Step, "end")
           /\ CheckFails => Asks(env.write_boot, Step, Status)
  <1>1. env \in Env
    BY DEF TypeInv, TypeOK
  <1>2. Boot => Still
    BY DEF Boot, Still, fastboot_step_check, recovery_update, BootRom, BootRomFails,
           aml_update_env, StartTrial, TrialFailed, NoFastbootStep, SkipRecovery,
           StartRecoveryUpdate, FinishRecoveryUpdate, ClearRecoveryNeedUpdate, NoSecureCheck,
           StartCheck, FinishCheck, CheckFails, switch_bootmode, device, partitions
  <1>3. BootRom \/ BootRomFails \/ NoFastbootStep \/ switch_bootmode
          => Asks(env.write_boot, Step, Status)
    BY DEF BootRom, BootRomFails, NoFastbootStep, switch_bootmode, Asks, Step, Status
  <1> QED BY <1>1, <1>2, <1>3, BootRequests, AfterAsks

LEMMA RequestSteps ==
    ASSUME TypeInv
    PROVE  /\ Request => /\ UNCHANGED <<gpt, accepted, copies, writes, cuts>>
                         /\ RequestWriteBoot \/ bootloader_up' = bootloader_up
           /\ FinishWriteBoot => Asks(FALSE, Step, Status)
           /\ set_default_env => Asks(env.write_boot, Step, Status)
           /\ set_fastboot_step => Asks(env.write_boot, 1, Status)
           /\ check_fastboot_step => Asks(env.write_boot, 0, Status)
           /\ UserReboots \/ StartFastboot => Asks(env.write_boot, Step, Status)
           /\ RequestRecoveryUpdate => Asks(env.write_boot, Step, Status)
           /\ RequestWriteBoot => Asks(TRUE, Step, Status)
           /\ FinishRobustUpdate => Asks(env.write_boot, Step, "next")
  <1>1. env \in Env
    BY DEF TypeInv, TypeOK
  <1>2. Request => /\ UNCHANGED <<gpt, accepted, copies, writes, cuts>>
                   /\ RequestWriteBoot \/ bootloader_up' = bootloader_up
    BY DEF Request, FinishWriteBoot, set_default_env, set_fastboot_step, check_fastboot_step,
           UserReboots, StartFastboot, RequestRecoveryUpdate, RequestWriteBoot,
           FinishRobustUpdate, device, partitions
  <1>3. UserReboots \/ StartFastboot => Asks(env.write_boot, Step, Status)
    BY DEF UserReboots, StartFastboot, Asks, Step, Status
  <1> QED BY <1>1, <1>2, <1>3, RequestRequests, AfterAsks

\* With the boot sequence at its start the ROM starts the first copy, if it can.
LEMMA FirstStarts ==
    TypeInv /\ BootRom /\ ~next /\ First \in Usable => idx' = First
  <1> SUFFICES ASSUME TypeInv, BootRom, ~next, First \in Usable
               PROVE  idx' = First
    OBVIOUS
  <1>1. PICK c \in Usable : c = idx' /\ Distance(c) <= Distance(First)
    BY DEF BootRom
  <1>2. \A d \in Copies : Distance(d) = d - First
    BY DEF Distance, Copies, First
  <1> QED BY <1>1, <1>2 DEF Usable, Copies, First

-----------------------------------------------------------------------------
(* What holds whatever the power does.                                     *)

LEMMA GeneralBoot == TypeInv /\ General /\ Boot => General'
  <1> SUFFICES ASSUME TypeInv, General, Boot PROVE General'
    OBVIOUS
  <1> USE DEF General, Writing, Early
  <1>1. Still
    BY BootSteps
  <1>2. CASE BootRom \/ BootRomFails
    BY <1>1, <1>2, BootSteps DEF Still, Asks, BootRom, BootRomFails
  <1>3. CASE aml_update_env
    BY <1>1, <1>3, BootSteps DEF Still, Asks, aml_update_env
  <1>4. CASE fastboot_step_check
    <2>1. NoFastbootStep => Step \in 0..2 /\ Step # 1 /\ (Step = 2 => idx # First)
      BY DEF NoFastbootStep, Step, TypeInv, TypeOK, Env
    <2> QED BY <1>1, <1>4, <2>1, BootSteps
            DEF Still, Asks, fastboot_step_check, StartTrial, TrialFailed, NoFastbootStep,
                Reboot, First
  <1>5. CASE recovery_update
    BY <1>1, <1>5, BootSteps
       DEF Still, Asks, recovery_update, SkipRecovery, StartRecoveryUpdate,
           FinishRecoveryUpdate, ClearRecoveryNeedUpdate, First
  <1>6. CASE NoSecureCheck \/ StartCheck \/ FinishCheck \/ CheckFails
    BY <1>1, <1>6, BootSteps
       DEF Still, Asks, NoSecureCheck, StartCheck, FinishCheck, CheckFails, Reboot, First
  <1>7. CASE switch_bootmode
    BY <1>1, <1>7, BootSteps DEF Still, Asks, switch_bootmode, First
  <1> QED BY <1>2, <1>3, <1>4, <1>5, <1>6, <1>7 DEF Boot

LEMMA GeneralRequest == TypeInv /\ General /\ Request => General'
  <1> SUFFICES ASSUME TypeInv, General, Request PROVE General'
    OBVIOUS
  <1> USE DEF General, Writing, Early
  <1>1. UNCHANGED <<gpt, accepted, copies, writes, cuts>>
    BY RequestSteps
  <1>2. CASE FinishWriteBoot \/ check_fastboot_step
    BY <1>1, <1>2, RequestSteps DEF Asks, FinishWriteBoot, check_fastboot_step, Reboot, First, Written
  <1>3. CASE set_default_env \/ set_fastboot_step
    BY <1>1, <1>3, RequestSteps DEF Asks, set_default_env, set_fastboot_step, First, Written
  <1>4. CASE UserReboots
    BY <1>1, <1>4, RequestSteps DEF Asks, UserReboots, Reboot, Written
  <1>5. CASE StartFastboot
    BY <1>1, <1>5, RequestSteps DEF Asks, StartFastboot, First
  <1>6. CASE RequestRecoveryUpdate \/ RequestWriteBoot \/ FinishRobustUpdate
    BY <1>1, <1>6, RequestSteps
       DEF Asks, RequestRecoveryUpdate, RequestWriteBoot, FinishRobustUpdate, Reboot, First, Written
  <1> QED BY <1>2, <1>3, <1>4, <1>5, <1>6 DEF Request

-----------------------------------------------------------------------------
(* The writes.                                                             *)

\* A write makes the copy it names unusable, or completes it and is done.
LEMMA WriteStep ==
    ASSUME TypeInv, write_bootloader
    PROVE  LET w == Head(writes)
           IN  /\ writes # <<>>
               /\ w.dst \in 0..2 /\ w.img \in Images
               /\ \E j \in DOMAIN writes : writes[j] = w
               /\ \A c \in 0..2 : c # w.dst => copies'[c] = copies[c]
               /\ \/ copies[w.dst] # Torn /\ copies'[w.dst] = Torn /\ writes' = writes
                  \/ /\ copies[w.dst] = Torn /\ copies'[w.dst] = w.img
                     /\ writes' = Tail(writes)
               /\ \A i \in DOMAIN writes' : \E j \in DOMAIN writes : writes'[i] = writes[j]
               /\ UNCHANGED <<device, partitions, env, pc, idx, next, mode, gen, cuts>>
  <1> DEFINE w == Head(writes)
  <1>1. writes \in Writes /\ writes # <<>> /\ copies \in [0..2 -> Images]
    BY DEF TypeInv, TypeOK, Writes, write_bootloader
  <1>2. /\ w \in [img : Images, dst : 0..2]
        /\ \E j \in DOMAIN writes : w = writes[j]
        /\ \A i \in DOMAIN Tail(writes) : \E j \in DOMAIN writes : Tail(writes)[i] = writes[j]
    BY <1>1, FirstWriteDone
  <1>3. \/ /\ copies[w.dst] # Torn
           /\ copies' = [copies EXCEPT ![w.dst] = Torn]
           /\ writes' = writes
        \/ /\ copies[w.dst] = Torn
           /\ copies' = [copies EXCEPT ![w.dst] = w.img]
           /\ writes' = Tail(writes)
    BY DEF write_bootloader
  <1>4. UNCHANGED <<device, partitions, env, pc, idx, next, mode, gen, cuts>>
    BY DEF write_bootloader
  <1> HIDE DEF w
  <1>5. \A i \in DOMAIN writes' : \E j \in DOMAIN writes : writes'[i] = writes[j]
    BY <1>2, <1>3
  <1>6. /\ \A c \in 0..2 : c # w.dst => copies'[c] = copies[c]
        /\ \/ copies[w.dst] # Torn /\ copies'[w.dst] = Torn /\ writes' = writes
           \/ copies[w.dst] = Torn /\ copies'[w.dst] = w.img /\ writes' = Tail(writes)
    BY <1>1, <1>2, <1>3
  <1> QED BY <1>1, <1>2, <1>4, <1>5, <1>6 DEF w

LEMMA GeneralWrites ==
    ASSUME TypeInv, General, ~FlashOnTrial,
           \/ StartWriteBoot \/ write_bootloader \/ flash \/ FastbootReboot
           \/ StartRobustUpdate \/ PowerCut
    PROVE  General'
  <1> USE DEF General, Writing, Early
  <1>1. CASE StartWriteBoot
    BY <1>1 DEF StartWriteBoot, Step, First, device
  <1>2. CASE write_bootloader
    <2>1. \A i \in DOMAIN writes' : \E j \in DOMAIN writes : writes'[i] = writes[j]
      BY <1>2, WriteStep
    <2>2. UNCHANGED <<device, env, pc, idx, next>> /\ writes # <<>>
      BY <1>2, WriteStep
    <2> QED BY <2>1, <2>2 DEF device, Step, First
  <1>3. CASE flash
    <2>1. Step # 2
      BY <1>3 DEF flash, Step
    <2> QED BY <1>3, <2>1 DEF flash, Step, First, device
  <1>4. CASE FastbootReboot
    <2>1. ~gpt => \A i \in DOMAIN TrialCopies : TrialCopies[i].dst # 1
      BY TrialCopiesOk DEF TypeInv
    <2>2. pc = "fastboot" /\ writes = <<>> /\ ~next /\ UNCHANGED <<device, env, idx>>
      BY <1>4 DEF FastbootReboot, Written
    <2>3. CASE Step = 2
      <3>1. writes' = TrialCopies /\ pc' = "check_fastboot_step" /\ next' = next
        BY <1>4, <2>3 DEF FastbootReboot, Step
      <3> QED BY <2>1, <2>2, <2>3, <3>1 DEF Step, First, device
    <2>4. CASE Step # 2
      <3>1. writes' = writes /\ pc' = "rom" /\ next' = FALSE
        BY <1>4, <2>4 DEF FastbootReboot, Step, Reboot
      <3> QED BY <2>2, <3>1
    <2> QED BY <2>3, <2>4
  <1>5. CASE StartRobustUpdate
    BY <1>5 DEF StartRobustUpdate, Step, First, device
  <1>6. CASE PowerCut
    <2>1. writes' = <<>> /\ pc' = "rom"
      BY <1>6 DEF PowerCut, Reboot
    <2> QED BY <2>1
  <1> QED BY <1>1, <1>2, <1>3, <1>4, <1>5, <1>6

-----------------------------------------------------------------------------
(* The first copy before the first power cut.                              *)

LEMMA FirstKeptBoot ==
    ASSUME TypeInv, General, FirstKept, Boot
    PROVE  FirstKept'
  <1> USE DEF Writing, Early, Booting, Update
  <1>1. Still /\ First' = First
    BY BootSteps DEF Still, First
  <1>2. First \in Copies /\ First \in {0, 1} /\ (gpt <=> First = 1)
    BY DEF First, Copies, TypeInv, TypeOK
  <1>3. \A c \in Copies : /\ InProgress(c)' = InProgress(c)
                          /\ copies'[c] = copies[c]
    BY <1>1 DEF Still, InProgress
  <1>4. FlashForm' = FlashForm
    BY <1>1 DEF Still, FlashForm, Write
  <1>5. pc = "rom" => First \in Usable
    BY <1>2 DEF General, FirstKept, InProgress, Usable
  <1>6. /\ Step \in 0..2 /\ Status \in {"init", "next", "finish", "end"}
        /\ env.write_boot \in BOOLEAN
    BY DEF TypeInv, TypeOK, Env, Step, Status
  <1>7. CASE BootRom
    <2>1. ~next => idx' = First
      BY <1>5, <1>7, FirstStarts DEF BootRom
    <2>2. idx' \in Usable /\ pc = "rom" /\ pc' = "aml_update_env" /\ next' = FALSE /\ mode' = mode
      BY <1>7 DEF BootRom
    <2>3. copies'[idx'] \in accepted'
      BY <1>1, <2>2 DEF Usable, Still
    <2> QED BY <1>1, <1>2, <1>3, <1>4, <1>7, <2>1, <2>2, <2>3, BootSteps
            DEF FirstKept, Still, Asks
  <1>8. CASE BootRomFails
    BY <1>5, <1>8 DEF BootRomFails
  <1>9. CASE aml_update_env
    BY <1>1, <1>2, <1>3, <1>4, <1>9, BootSteps DEF General, FirstKept, Still, Asks, aml_update_env
  <1>10. CASE StartTrial
    BY <1>1, <1>2, <1>3, <1>4, <1>10, BootSteps
       DEF General, FirstKept, Still, Asks, StartTrial, Reboot, Step
  <1>11. CASE TrialFailed
    BY <1>1, <1>2, <1>3, <1>4, <1>11, BootSteps DEF General, FirstKept, Still, Asks, TrialFailed, Step
  <1>12. CASE NoFastbootStep
    BY <1>1, <1>2, <1>3, <1>4, <1>12, BootSteps DEF General, FirstKept, Still, Asks, NoFastbootStep
  <1>13. CASE recovery_update
    BY <1>1, <1>2, <1>3, <1>4, <1>13, BootSteps
       DEF General, FirstKept, Still, Asks, recovery_update, SkipRecovery, StartRecoveryUpdate,
           FinishRecoveryUpdate, ClearRecoveryNeedUpdate
  <1>14. CASE NoSecureCheck
    BY <1>1, <1>2, <1>3, <1>4, <1>14, BootSteps
       DEF General, FirstKept, Still, Asks, NoSecureCheck, Status
  <1>15. CASE StartCheck
    BY <1>1, <1>2, <1>3, <1>4, <1>15, BootSteps
       DEF General, FirstKept, Still, Asks, StartCheck, Reboot, Status
  <1>16. CASE FinishCheck
    BY <1>1, <1>2, <1>3, <1>4, <1>16, BootSteps
       DEF General, FirstKept, Still, Asks, FinishCheck, Status
  <1>17. CASE CheckFails
    BY <1>1, <1>2, <1>3, <1>4, <1>17, BootSteps DEF General, FirstKept, Still, Asks, CheckFails
  <1>18. CASE switch_bootmode
    BY <1>1, <1>2, <1>3, <1>4, <1>6, <1>18, BootSteps
       DEF General, FirstKept, Still, Asks, switch_bootmode
  <1> QED BY <1>7, <1>8, <1>9, <1>10, <1>11, <1>12, <1>13, <1>14, <1>15, <1>16, <1>17, <1>18
          DEF Boot, fastboot_step_check

LEMMA FirstKeptRequest ==
    ASSUME TypeInv, General, FirstKept, ~FlashOnTrial, Request
    PROVE  FirstKept'
  <1> USE DEF Writing, Early, Booting, Update
  <1>1. UNCHANGED <<gpt, accepted, copies, writes, cuts>> /\ First' = First
    BY RequestSteps DEF First
  <1>2. First \in Copies /\ First \in {0, 1} /\ (gpt <=> First = 1)
    BY DEF First, Copies, TypeInv, TypeOK
  <1>3. \A c \in Copies : InProgress(c)' = InProgress(c)
    BY <1>1 DEF InProgress
  <1>4. bootloader_up' = bootloader_up => FlashForm' = FlashForm
    BY <1>1 DEF FlashForm, Write
  <1>5. CASE FinishWriteBoot
    BY <1>1, <1>2, <1>3, <1>5, RequestSteps DEF General, FirstKept, Asks, FinishWriteBoot, Reboot
  <1>6. CASE set_default_env
    <2>1. ~gpt => copies[1] = copies[2]
      BY <1>6 DEF FirstKept, FlashForm, set_default_env, Written
    <2> QED BY <1>1, <1>2, <1>3, <1>6, <2>1, RequestSteps
            DEF General, FirstKept, Asks, set_default_env
  <1>7. CASE set_fastboot_step
    BY <1>1, <1>2, <1>3, <1>7, RequestSteps DEF General, FirstKept, Asks, set_fastboot_step
  <1>8. CASE check_fastboot_step
    BY <1>1, <1>2, <1>3, <1>8, RequestSteps DEF General, FirstKept, Asks, check_fastboot_step, Reboot
  <1>9. CASE UserReboots
    BY <1>1, <1>2, <1>3, <1>9, RequestSteps DEF General, FirstKept, Asks, UserReboots, Reboot
  <1>10. CASE StartFastboot
    BY <1>1, <1>2, <1>3, <1>10, RequestSteps DEF General, FirstKept, Asks, StartFastboot
  <1>11. CASE RequestRecoveryUpdate
    BY <1>1, <1>2, <1>3, <1>11, RequestSteps DEF General, FirstKept, Asks, RequestRecoveryUpdate
  <1>12. CASE RequestWriteBoot
    BY <1>1, <1>2, <1>3, <1>12, RequestSteps
       DEF General, FirstKept, Asks, RequestWriteBoot, Reboot, TypeInv, TypeOK
  <1>13. CASE FinishRobustUpdate
    BY <1>1, <1>2, <1>3, <1>13, RequestSteps DEF General, FirstKept, Asks, FinishRobustUpdate, Reboot
  <1> QED BY <1>5, <1>6, <1>7, <1>8, <1>9, <1>10, <1>11, <1>12, <1>13 DEF Request

LEMMA FirstKeptWriting ==
    ASSUME TypeInv, General, FirstKept, write_bootloader
    PROVE  FirstKept'
  <1> USE DEF Writing, Early, Booting, Update
  <1> DEFINE w == Head(writes)
  <1>1. /\ writes # <<>> /\ w.dst \in 0..2
        /\ \E j \in DOMAIN writes : writes[j] = w
        /\ \A c \in 0..2 : c # w.dst => copies'[c] = copies[c]
        /\ \/ copies[w.dst] # Torn /\ copies'[w.dst] = Torn /\ writes' = writes
           \/ copies[w.dst] = Torn /\ copies'[w.dst] = w.img /\ writes' = Tail(writes)
        /\ \A i \in DOMAIN writes' : \E j \in DOMAIN writes : writes'[i] = writes[j]
        /\ UNCHANGED <<gpt, accepted, bootloader_up, env, pc, idx, next, mode, cuts>>
    BY WriteStep DEF device, partitions
  <1>2. First \in 0..2 /\ (gpt => First = 1) /\ (~gpt => First = 0) /\ First' = First
    BY <1>1 DEF First
  <1>3. pc \in Writing /\ Step' = Step /\ Status' = Status
    BY <1>1 DEF General, Step, Status
  <1>4. copies'[First] \in accepted' \/ InProgress(First)'
    BY <1>1, <1>2 DEF FirstKept, InProgress
  <1>5. \A i \in DOMAIN writes' : writes'[i].dst = First => writes'[i].img \in accepted
    BY <1>1 DEF FirstKept
  <1>6. pc # "check_fastboot_step" => Step = 0 \/ pc = "flash"
    BY <1>3 DEF FirstKept
  <1>7. ~gpt /\ pc = "flash" => FlashForm'
    <2> SUFFICES ASSUME ~gpt, pc = "flash" PROVE FlashForm'
      OBVIOUS
    <2>1. FlashForm /\ bootloader_up' = bootloader_up
      BY <1>1 DEF FirstKept
    <2>2. CASE writes = <<Write(bootloader_up, 1), Write(bootloader_up, 2)>>
      <3>1. w = Write(bootloader_up, 1) /\ Tail(writes) = <<Write(bootloader_up, 2)>>
        BY <2>2
      <3>2. w.dst = 1 /\ w.img = bootloader_up
        BY <3>1 DEF Write
      <3> QED BY <1>1, <2>1, <2>2, <3>1, <3>2 DEF FlashForm, Write
    <2>3. CASE writes = <<Write(bootloader_up, 2)>> /\ copies[1] = bootloader_up
      <3>1. w = Write(bootloader_up, 2) /\ Tail(writes) = <<>>
        BY <2>3
      <3>2. w.dst = 2 /\ w.img = bootloader_up
        BY <3>1 DEF Write
      <3> QED BY <1>1, <2>1, <2>3, <3>1, <3>2 DEF FlashForm, Write
    <2> QED BY <1>1, <2>1, <2>2, <2>3 DEF FlashForm
  <1>8. ~(pc = "set_fastboot_step")
    BY <1>3
  <1> QED BY <1>1, <1>2, <1>3, <1>4, <1>5, <1>6, <1>7, <1>8 DEF General, FirstKept

LEMMA FirstKeptWrites ==
    ASSUME TypeInv, General, FirstKept, ~FlashOnTrial,
           StartWriteBoot \/ flash \/ FastbootReboot \/ StartRobustUpdate
    PROVE  FirstKept'
  <1> USE DEF Writing, Early, Booting, Update
  <1>1. First \in 0..2 /\ (gpt => First = 1) /\ (~gpt => First = 0)
    BY DEF First
  <1>2. /\ \A d \in 0..2, img \in Images : Write(img, d).img = img /\ Write(img, d).dst = d
        /\ bootloader_up \in Images /\ copies[1] \in Images /\ copies[2] \in Images
    BY WriteType DEF TypeInv, TypeOK
  <1>3. CASE StartWriteBoot
    <2>1. /\ UNCHANGED <<gpt, accepted, copies, bootloader_up, env, idx, next, mode>>
          /\ First' = First /\ Step' = Step /\ Status' = Status
          /\ pc = "non_ab_update" /\ env.write_boot /\ pc' = "write_boot"
          /\ writes = <<>>
      BY <1>3 DEF StartWriteBoot, device, partitions, First, Step, Status, General
    <2>2. DOMAIN writes' = {1, 2} /\ writes'[1].img = bootloader_up /\ writes'[2].img = bootloader_up
      BY <1>2, <1>3, TwoWrites, WriteType DEF StartWriteBoot, WriteBootWrites
    <2>3. copies[First] \in accepted
      BY <2>1 DEF FirstKept, InProgress
    <2> QED BY <1>1, <2>1, <2>2, <2>3 DEF FirstKept
  <1>4. CASE flash
    <2>1. gen + 1 \in Images
      BY <1>4, NextBuild DEF flash, TypeInv
    <2>2. /\ UNCHANGED <<gpt, accepted, copies, env, idx, next, mode>>
          /\ First' = First /\ Step' = Step /\ Status' = Status
          /\ pc = "fastboot" /\ Step # 2 /\ pc' = "flash" /\ writes = <<>>
          /\ bootloader_up' = gen + 1 /\ writes' = FlashWrites(gen + 1)
      BY <1>4 DEF flash, device, First, Step, Status, Written
    <2>3. idx = First /\ ~env.write_boot
      BY <2>2 DEF FirstKept
    <2>4. /\ \A i \in DOMAIN writes' : writes'[i].dst # First
          /\ ~gpt => writes' = <<Write(gen + 1, 1), Write(gen + 1, 2)>>
      BY <2>1, <2>2, <2>3, FlashWritesOk DEF TypeInv
    <2>5. ~gpt => FlashForm'
      BY <2>2, <2>4 DEF FlashForm, Write
    <2>6. copies[First] \in accepted
      BY <2>2 DEF FirstKept, InProgress
    <2> QED BY <1>1, <2>2, <2>3, <2>4, <2>5, <2>6 DEF FirstKept
  <1>5. CASE FastbootReboot
    <2>1. /\ UNCHANGED <<gpt, accepted, copies, bootloader_up, env, idx>>
          /\ First' = First /\ Step' = Step /\ Status' = Status
          /\ pc = "fastboot" /\ writes = <<>> /\ ~env.write_boot
          /\ copies[First] \in accepted
      BY <1>5 DEF FastbootReboot, device, partitions, First, Step, Status, Written, FirstKept,
                  InProgress
    <2>2. CASE Step = 2
      <3>1. writes' = TrialCopies /\ pc' = "check_fastboot_step" /\ next' = next /\ ~next
        BY <1>5, <2>2 DEF FastbootReboot, Step, General
      <3>2. idx \in Copies /\ idx # First /\ copies[idx] \in accepted
        BY <2>1, <2>2 DEF General, FirstKept, TypeInv
      <3>3. copies[IF gpt THEN 2 ELSE 1] \in accepted
        BY <1>1, <2>1, <2>2, <3>2 DEF Copies, FirstKept
      <3>4. \A i \in DOMAIN writes' : writes'[i].img \in accepted
        BY <3>1, <3>3, TrialCopiesOk DEF TypeInv
      <3> QED BY <1>1, <2>1, <2>2, <3>1, <3>2, <3>4 DEF FirstKept
    <2>3. CASE Step # 2
      <3>1. writes' = writes /\ pc' = "rom" /\ next' = FALSE
        BY <1>5, <2>3 DEF FastbootReboot, Step, Reboot
      <3> QED BY <1>1, <2>1, <2>3, <3>1 DEF FirstKept
    <2> QED BY <2>2, <2>3
  <1>6. CASE StartRobustUpdate
    <2>1. /\ UNCHANGED <<gpt, accepted, copies, bootloader_up, env, idx, next, mode>>
          /\ First' = First /\ Step' = Step /\ Status' = Status
          /\ pc = "recovery" /\ writes = <<>> /\ pc' = "robust_update" /\ ~env.write_boot
          /\ copies[First] \in accepted
      BY <1>6 DEF StartRobustUpdate, device, partitions, First, Step, Status, Written, FirstKept,
                  InProgress
    <2>2. gen + 1 \in Images
      BY <1>6, NextBuild DEF StartRobustUpdate, TypeInv
    <2>3. PICK c \in Usable \ {2} : /\ \A d \in Usable : c <= d
                                    /\ writes' = <<Write(gen + 1, c + 1)>>
      BY <1>6 DEF StartRobustUpdate
    <2>4. c = First
      BY <1>1, <2>1, <2>3 DEF Usable, Copies
    <2>5. \A i \in DOMAIN writes' : writes'[i].dst # First
      <3>1. First + 1 \in 0..2 /\ First + 1 # First
        BY <1>1
      <3>2. Write(gen + 1, First + 1) \in [img : Images, dst : 0..2]
        BY <2>2, <3>1, WriteType
      <3> QED BY <1>2, <2>2, <2>3, <2>4, <3>1, <3>2, OneWrite
    <2> QED BY <1>1, <2>1, <2>5 DEF FirstKept
  <1> QED BY <1>3, <1>4, <1>5, <1>6

-----------------------------------------------------------------------------
(* The copies after the first power cut, when no bootloader is bad.        *)

\* A copy that is not being written and not damaged can be started.
LEMMA NotDamaged ==
    ASSUME TypeInv, accepted = Builds, writes = <<>>, NEW c \in Copies
    PROVE  c \in Usable <=> ~Damaged(c)
  <1>1. c \in 0..2 /\ copies[c] \in Images
    BY DEF TypeInv, TypeOK, Copies, First
  <1> QED BY <1>1, Constants DEF Damaged, InProgress, Usable, Images

LEMMA OneDamagedBoot ==
    ASSUME TypeInv, General, OneDamaged, accepted = Builds, Boot
    PROVE  OneDamaged'
  <1> USE DEF Writing, Early, Booting, Update
  <1>1. Still /\ First' = First
    BY BootSteps DEF Still, First
  <1>2. First \in Copies /\ 2 \in Copies /\ First \in {0, 1} /\ (gpt <=> First = 1)
        /\ Copies \subseteq 0..2
    BY DEF First, Copies, TypeInv, TypeOK
  <1>3. \A c \in 0..2 : Damaged(c)' = Damaged(c)
    BY <1>1 DEF Still, InProgress, Damaged
  <1>4. idx \in 0..2 /\ Step \in 0..2
    BY DEF TypeInv, TypeOK, Env, Step
  <1>5. CASE BootRom
    <2>1. pc = "rom" /\ writes = <<>> /\ idx' \in Usable /\ pc' = "aml_update_env"
          /\ next' = FALSE /\ mode' = mode
      BY <1>5 DEF BootRom, General
    <2>2. idx' \in 0..2 /\ ~Damaged(idx')
      BY <1>2, <2>1, NotDamaged DEF Usable
    <2>3. ~gpt /\ Damaged(1) => ~Damaged(First)
      BY <1>2 DEF OneDamaged
    <2>4. ~gpt /\ Damaged(1) /\ ~next => idx' = First
      BY <1>2, <1>5, <2>1, <2>3, NotDamaged, FirstStarts
    <2> QED BY <1>1, <1>2, <1>3, <1>5, <2>1, <2>2, <2>4, BootSteps DEF OneDamaged, Still, Asks
  <1>6. CASE BootRomFails
    <2>1. writes = <<>> /\ First \notin Usable /\ 2 \notin Usable
      BY <1>6 DEF BootRomFails, General
    <2>2. Damaged(First) /\ Damaged(2)
      BY <1>2, <2>1, NotDamaged
    <2> QED BY <1>2, <2>2 DEF OneDamaged
  <1>7. CASE aml_update_env
    BY <1>1, <1>2, <1>3, <1>4, <1>7, BootSteps DEF General, OneDamaged, Still, Asks, aml_update_env
  <1>8. CASE StartTrial
    BY <1>1, <1>2, <1>3, <1>4, <1>8, BootSteps
       DEF General, OneDamaged, Still, Asks, StartTrial, Reboot, Step
  <1>9. CASE TrialFailed
    BY <1>1, <1>2, <1>3, <1>4, <1>9, BootSteps DEF General, OneDamaged, Still, Asks, TrialFailed
  <1>10. CASE NoFastbootStep
    BY <1>1, <1>2, <1>3, <1>4, <1>10, BootSteps
       DEF General, OneDamaged, Still, Asks, NoFastbootStep, Step
  <1>11. CASE recovery_update
    BY <1>1, <1>2, <1>3, <1>4, <1>11, BootSteps
       DEF General, OneDamaged, Still, Asks, recovery_update, SkipRecovery, StartRecoveryUpdate,
           FinishRecoveryUpdate, ClearRecoveryNeedUpdate
  <1>12. CASE NoSecureCheck
    BY <1>1, <1>2, <1>3, <1>4, <1>12, BootSteps
       DEF General, OneDamaged, Still, Asks, NoSecureCheck
  <1>13. CASE StartCheck
    BY <1>1, <1>2, <1>3, <1>4, <1>13, BootSteps
       DEF General, OneDamaged, Still, Asks, StartCheck, Reboot, Status
  <1>14. CASE FinishCheck \/ CheckFails
    BY <1>1, <1>2, <1>3, <1>4, <1>14, BootSteps
       DEF General, OneDamaged, Still, Asks, FinishCheck, CheckFails, Status
  <1>15. CASE switch_bootmode
    BY <1>1, <1>2, <1>3, <1>4, <1>15, BootSteps
       DEF General, OneDamaged, Still, Asks, switch_bootmode
  <1> QED BY <1>5, <1>6, <1>7, <1>8, <1>9, <1>10, <1>11, <1>12, <1>13, <1>14, <1>15
          DEF Boot, fastboot_step_check

LEMMA OneDamagedRequest ==
    ASSUME TypeInv, General, OneDamaged, accepted = Builds, Request
    PROVE  OneDamaged'
  <1> USE DEF Writing, Early, Booting, Update
  <1>1. UNCHANGED <<gpt, accepted, copies, writes, cuts>> /\ First' = First
    BY RequestSteps DEF First
  <1>2. bootloader_up' \in Builds
    BY RequestSteps, NextBuild DEF RequestWriteBoot, OneDamaged, TypeInv
  <1>3. (\A c \in 0..2 : Damaged(c)' = Damaged(c)) /\ Damaged(1)' = Damaged(1)
    BY <1>1 DEF InProgress, Damaged
  <1>4. idx' = idx /\ idx \in 0..2
    BY DEF TypeInv, TypeOK, Request, FinishWriteBoot, set_default_env, set_fastboot_step,
           check_fastboot_step, UserReboots, StartFastboot, RequestRecoveryUpdate,
           RequestWriteBoot, FinishRobustUpdate
  <1>5. CASE FinishWriteBoot
    BY <1>1, <1>2, <1>3, <1>4, <1>5, RequestSteps
       DEF General, OneDamaged, Asks, FinishWriteBoot, Reboot
  <1>6. CASE set_default_env \/ set_fastboot_step
    BY <1>1, <1>2, <1>3, <1>4, <1>6, RequestSteps
       DEF General, OneDamaged, Asks, set_default_env, set_fastboot_step
  <1>7. CASE check_fastboot_step
    BY <1>1, <1>2, <1>3, <1>4, <1>7, RequestSteps
       DEF General, OneDamaged, Asks, check_fastboot_step, Reboot
  <1>8. CASE UserReboots
    BY <1>1, <1>2, <1>3, <1>4, <1>8, RequestSteps DEF General, OneDamaged, Asks, UserReboots, Reboot
  <1>9. CASE StartFastboot
    BY <1>1, <1>2, <1>3, <1>4, <1>9, RequestSteps DEF General, OneDamaged, Asks, StartFastboot
  <1>10. CASE RequestRecoveryUpdate
    BY <1>1, <1>2, <1>3, <1>4, <1>10, RequestSteps
       DEF General, OneDamaged, Asks, RequestRecoveryUpdate
  <1>11. CASE RequestWriteBoot \/ FinishRobustUpdate
    BY <1>1, <1>2, <1>3, <1>4, <1>11, RequestSteps
       DEF General, OneDamaged, Asks, RequestWriteBoot, FinishRobustUpdate, Reboot
  <1> QED BY <1>5, <1>6, <1>7, <1>8, <1>9, <1>10, <1>11 DEF Request

LEMMA OneDamagedWriting ==
    ASSUME TypeInv, General, OneDamaged, write_bootloader
    PROVE  OneDamaged'
  <1> DEFINE w == Head(writes)
  <1>1. /\ writes # <<>> /\ w.dst \in 0..2
        /\ \E j \in DOMAIN writes : writes[j] = w
        /\ \A c \in 0..2 : c # w.dst => copies'[c] = copies[c]
        /\ \/ copies[w.dst] # Torn /\ copies'[w.dst] = Torn /\ writes' = writes
           \/ copies[w.dst] = Torn /\ copies'[w.dst] = w.img /\ writes' = Tail(writes)
        /\ \A i \in DOMAIN writes' : \E j \in DOMAIN writes : writes'[i] = writes[j]
        /\ UNCHANGED <<gpt, accepted, bootloader_up, env, pc, idx, next, mode, cuts>>
    BY WriteStep DEF device, partitions
  <1>2. First' = First /\ Step' = Step /\ Status' = Status /\ idx \in 0..2
    BY <1>1 DEF First, Step, Status, TypeInv, TypeOK
  <1>3. w.img \in Builds /\ \A i \in DOMAIN writes' : writes'[i].img \in Builds
    BY <1>1 DEF OneDamaged
  <1>4. \A c \in 0..2 : Damaged(c)' => Damaged(c)
    <2> SUFFICES ASSUME NEW c \in 0..2, Damaged(c)' PROVE Damaged(c)
      OBVIOUS
    <2>1. copies'[c] = Torn /\ ~InProgress(c)'
      BY DEF Damaged
    <2>2. c # w.dst
      BY <1>1, <1>3, <2>1, Constants DEF InProgress
    <2> QED BY <1>1, <2>1, <2>2 DEF Damaged, InProgress
  <1>5. 1 \in 0..2
    OBVIOUS
  <1> QED BY <1>1, <1>2, <1>3, <1>4, <1>5 DEF OneDamaged

LEMMA OneDamagedWrites ==
    ASSUME TypeInv, General, OneDamaged, ~FlashOnTrial, accepted = Builds,
           StartWriteBoot \/ flash \/ FastbootReboot \/ StartRobustUpdate
    PROVE  OneDamaged'
  <1> USE DEF Writing, Early, Booting, Update
  <1>1. First \in 0..2 /\ (gpt => First = 1) /\ (~gpt => First = 0) /\ 1 \in 0..2
    BY DEF First
  <1>2. /\ UNCHANGED <<gpt, accepted, copies, env, idx, cuts>> /\ writes = <<>>
        /\ First' = First /\ Step' = Step /\ Status' = Status /\ idx \in 0..2
    <2>1. UNCHANGED <<gpt, accepted, copies, env, idx, cuts>>
      BY DEF StartWriteBoot, flash, FastbootReboot, StartRobustUpdate, device
    <2>2. writes = <<>>
      BY DEF StartWriteBoot, flash, FastbootReboot, StartRobustUpdate, Written, General
    <2> QED BY <2>1, <2>2 DEF First, Step, Status, TypeInv, TypeOK
  <1>3. \A c \in 0..2 : Damaged(c)' => Damaged(c)
    BY <1>2 DEF Damaged, InProgress
  <1>4. /\ gen < MaxGen => gen + 1 \in Builds /\ gen + 1 \in Images
        /\ bootloader_up \in Images
    BY NextBuild, Constants DEF OneDamaged, TypeInv
  <1>5. CASE StartWriteBoot
    <2>1. DOMAIN writes' = {1, 2} /\ writes'[1].img = bootloader_up /\ writes'[2].img = bootloader_up
      BY <1>4, <1>5, TwoWrites, WriteType DEF StartWriteBoot, WriteBootWrites
    <2>2. pc = "non_ab_update" /\ pc' = "write_boot" /\ env.write_boot
          /\ UNCHANGED <<bootloader_up, next, mode>>
      BY <1>5 DEF StartWriteBoot, partitions
    <2> QED BY <1>1, <1>2, <1>3, <2>1, <2>2 DEF OneDamaged
  <1>6. CASE flash
    <2>1. /\ pc = "fastboot" /\ pc' = "flash" /\ gen + 1 \in Images
          /\ bootloader_up' = gen + 1 /\ gen + 1 \in Builds
          /\ writes' = FlashWrites(gen + 1) /\ UNCHANGED <<next, mode>>
      BY <1>4, <1>6 DEF flash
    <2>2. /\ \A i \in DOMAIN writes' : writes'[i].img \in Builds
          /\ ~gpt => InProgress(1)'
      BY <1>2, <2>1, FlashWritesOk DEF TypeInv, InProgress
    <2>3. gpt \/ ~Damaged(1)'
      BY <2>2 DEF Damaged
    <2> QED BY <1>1, <1>2, <1>3, <2>1, <2>2, <2>3 DEF OneDamaged
  <1>7. CASE FastbootReboot
    <2>1. pc = "fastboot" /\ bootloader_up' = bootloader_up
      BY <1>7 DEF FastbootReboot, partitions
    <2>2. CASE Step = 2
      <3>1. writes' = TrialCopies /\ pc' = "check_fastboot_step" /\ next' = next
        BY <1>7, <2>2 DEF FastbootReboot, Step
      <3>2. ~Damaged(IF gpt THEN 2 ELSE 1)
        BY <1>1, <2>1, <2>2 DEF General, OneDamaged, TypeInv, Copies
      <3>3. copies[IF gpt THEN 2 ELSE 1] \in Builds
        BY <1>2, <3>2 DEF Damaged, InProgress, Images, TypeInv, TypeOK
      <3>4. \A i \in DOMAIN writes' : writes'[i].img \in Builds
        BY <3>1, <3>3, TrialCopiesOk DEF TypeInv
      <3> QED BY <1>1, <1>2, <1>3, <2>1, <2>2, <3>1, <3>4 DEF OneDamaged
    <2>3. CASE Step # 2
      <3>1. writes' = writes /\ pc' = "rom" /\ next' = FALSE
        BY <1>7, <2>3 DEF FastbootReboot, Step, Reboot
      <3> QED BY <1>1, <1>2, <1>3, <2>1, <2>3, <3>1 DEF OneDamaged
    <2> QED BY <2>2, <2>3
  <1>8. CASE StartRobustUpdate
    <2>1. pc = "recovery" /\ pc' = "robust_update" /\ UNCHANGED <<bootloader_up, next, mode>>
          /\ gen + 1 \in Builds /\ gen + 1 \in Images
      BY <1>4, <1>8 DEF StartRobustUpdate, partitions
    <2>2. PICK c \in Usable \ {2} : writes' = <<Write(gen + 1, c + 1)>>
      BY <1>8 DEF StartRobustUpdate
    <2>3. c + 1 \in 0..2
      BY <2>2 DEF Usable, Copies, First
    <2>4. \A i \in DOMAIN writes' : writes'[i].img \in Builds
      BY <2>1, <2>2, <2>3, WriteType, OneWrite
    <2> QED BY <1>1, <1>2, <1>3, <2>1, <2>4 DEF OneDamaged
  <1> QED BY <1>5, <1>6, <1>7, <1>8

\* The first power cut damages the copy that was being written, and no other.
LEMMA OneDamagedCut ==
    ASSUME TypeInv, General, FirstKept, OneDamaged, PowerCut, cuts = 0
    PROVE  OneDamaged'
  <1> USE DEF Writing
  <1>1. /\ writes' = <<>> /\ pc' = "rom" /\ mode' = "cold_boot" /\ next' = FALSE /\ cuts' = 1
        /\ UNCHANGED <<gpt, accepted, copies, bootloader_up, idx>>
    BY DEF PowerCut, Reboot, device, partitions
  <1>2. Asks(env.write_boot, Step, Status) \/ Asks(FALSE, 0, "init")
    BY RequestRequests, AfterAsks DEF TypeInv, TypeOK
  <1>3. \A c \in 0..2 : Damaged(c)' => InProgress(c)
    BY <1>1 DEF OneDamaged, Damaged, InProgress
  <1>4. \A c, d \in 0..2 : InProgress(c) /\ InProgress(d) => c = d
    BY DEF InProgress
  <1>5. ~gpt /\ InProgress(1) /\ Step # 0 => pc = "flash"
    <2> SUFFICES ASSUME ~gpt, InProgress(1), Step # 0 PROVE pc = "flash"
      OBVIOUS
    <2>1. pc \in Writing
      BY DEF InProgress, General
    <2>2. \E j \in DOMAIN writes : writes[j].dst = 1
      BY FirstWriteDone DEF InProgress, TypeInv, TypeOK, Writes
    <2> QED BY <2>1, <2>2 DEF General, FirstKept
  <1>6. Step \in 0..2
    BY DEF Step, TypeInv, TypeOK, Env
  <1>7. ~gpt' /\ Damaged(1)' /\ Step' # 0 => /\ ~env'.write_boot /\ Status' = "init" /\ Step' = 1
    BY <1>1, <1>2, <1>3, <1>5, <1>6 DEF General, FirstKept, Asks
  <1>8. \A i \in DOMAIN writes' : writes'[i].img \in Builds
    BY <1>1
  <1> QED BY <1>1, <1>3, <1>4, <1>7, <1>8 DEF OneDamaged

-----------------------------------------------------------------------------
(* The device is not bricked.                                              *)

LEMMA InitIInv == Init => IInv
  <1> SUFFICES ASSUME Init PROVE IInv
    OBVIOUS
  <1>1. TypeInv
    BY InitTypes DEF Init, TypeInv, Copies, First
  <1>2. Step = 0 /\ Status = "init" /\ ~env.write_boot /\ writes = <<>> /\ idx = First
        /\ pc = "rom" /\ ~next
    BY DEF Init, DefaultEnv, Step, Status
  <1>3. General
    BY <1>2 DEF General, Writing, Early
  <1>4. FirstKept
    BY <1>2 DEF FirstKept, Init, First
  <1>5. \A c \in 0..2 : ~Damaged(c)
    BY DEF Init, Damaged, Torn
  <1>6. OneDamaged
    BY <1>2, <1>5, Constants DEF OneDamaged, Init, Builds
  <1> QED BY <1>1, <1>3, <1>4, <1>6 DEF IInv

LEMMA IInvKept == ~FlashOnTrial /\ IInv /\ [Next]_vars => IInv'
  <1> SUFFICES ASSUME ~FlashOnTrial, IInv, [Next]_vars PROVE IInv'
    OBVIOUS
  <1> USE DEF IInv
  <1>1. TypeInv'
    BY TypesKept
  <1>2. cuts \in Nat
    BY DEF TypeInv, TypeOK
  <1>3. CASE Boot
    <2>1. cuts' = cuts /\ accepted' = accepted
      BY <1>3, BootSteps DEF Still
    <2> QED BY <1>1, <1>3, <2>1, GeneralBoot, FirstKeptBoot, OneDamagedBoot DEF Builds
  <1>4. CASE Request
    <2>1. cuts' = cuts /\ accepted' = accepted
      BY <1>4, RequestSteps
    <2> QED BY <1>1, <1>4, <2>1, GeneralRequest, FirstKeptRequest, OneDamagedRequest DEF Builds
  <1>5. CASE write_bootloader
    <2>1. cuts' = cuts /\ accepted' = accepted
      BY <1>5 DEF write_bootloader, device
    <2> QED BY <1>1, <1>5, <2>1, GeneralWrites, FirstKeptWriting, OneDamagedWriting DEF Builds
  <1>6. CASE StartWriteBoot \/ flash \/ FastbootReboot \/ StartRobustUpdate
    <2>1. cuts' = cuts /\ accepted' = accepted
      BY <1>6 DEF StartWriteBoot, flash, FastbootReboot, StartRobustUpdate, device
    <2> QED BY <1>1, <1>6, <2>1, GeneralWrites, FirstKeptWrites, OneDamagedWrites DEF Builds
  <1>7. CASE PowerCut
    <2>1. cuts' = cuts + 1 /\ accepted' = accepted
      BY <1>7 DEF PowerCut, device
    <2>2. General'
      BY <1>7, GeneralWrites
    <2>3. cuts' <= 1 /\ accepted' = Builds => OneDamaged'
      BY <1>2, <1>7, <2>1, OneDamagedCut
    <2> QED BY <1>1, <1>2, <2>1, <2>2, <2>3 DEF Builds
  <1>8. CASE UNCHANGED vars
    BY <1>1, <1>8
       DEF General, FirstKept, OneDamaged, FlashForm, InProgress, Damaged, Step, Status,
           First, Copies, Write, vars, device, partitions, Builds
  <1> QED BY <1>3, <1>4, <1>5, <1>6, <1>7, <1>8
          DEF Next, UBoot, Outside, Boot, Request, non_ab_update

\* Whatever is flashed, installed and tried, and however many times, bad bootloaders
\* alone do not brick the device, nor does one power cut alone, as long as the host does
\* not flash again while a trial runs.
THEOREM NonAbNeverBricked == ~FlashOnTrial => (Spec => []NeverBricked)
  <1> SUFFICES ASSUME ~FlashOnTrial PROVE Spec => []NeverBricked
    OBVIOUS
  <1>1. IInv /\ [Next]_vars => IInv'
    BY IInvKept
  <1>2. IInv => NeverBricked
    <2> SUFFICES ASSUME IInv, pc = "bricked", ~(cuts > 1)
                 PROVE  cuts = 1 /\ accepted # Builds
      BY DEF NeverBricked
    <2>1. cuts \in Nat
      BY DEF IInv, TypeInv, TypeOK
    <2> QED BY <2>1 DEF IInv, FirstKept, OneDamaged
  <1> QED BY <1>1, <1>2, InitIInv, PTL DEF Spec

-----------------------------------------------------------------------------
(* The recovery partition is whole whenever recovery starts, whatever one power cut *)
(* interrupts.                                                              *)

\* An update of recovery is asked for; aml_update_env resets the environment; the ROM
\* started the copy that it starts after a power cut.
Asked == env.recovery_need_update
Resetting == env.default_env \/ env.update_env \/ env.upgrade_step = 1
Lowest == idx \in Usable /\ \A d \in Usable : idx <= d
Again == {"rom", "bricked", "aml_update_env", "fastboot_step_check", "non_ab_update"}

\* A request lasts until the update is done, and as long as it does the boot that starts
\* at the first usable copy ends at the update: only then is it repeated after a cut.
RequestKept ==
    /\ writes # <<>> => pc \in Writing
    /\ next => pc \in {"rom", "bricked"}
    /\ Asked \/ pc = "recovery_update" => recoverybak # Torn
    /\ pc = "check" => ~Asked
    /\ pc = "non_ab_update" => Step # 1 /\ (Step = 2 => idx # First)
    /\ Asked /\ ~env.write_boot =>
         /\ next => Resetting
         /\ pc = "aml_update_env" /\ ~Resetting => Lowest
         /\ pc \in {"fastboot_step_check", "non_ab_update", "recovery_update"}
            => Lowest /\ ~Resetting

\* Recovery is half written only during the update, or while the boot after the one cut
\* goes straight back to it.
UpdateRepeats ==
    recovery = Torn /\ cuts <= 1 =>
      /\ Asked /\ ~env.write_boot /\ ~Resetting
      /\ Step # 1 /\ (Step = 2 => First \notin Usable)
      /\ pc = "recovery_update" \/ (cuts = 1 /\ ~next /\ pc \in Again)

RInv == TypeInv /\ RequestKept /\ UpdateRepeats

\* With the boot sequence at its start the ROM starts the first copy it can.
LEMMA LowestStarts ==
    TypeInv /\ BootRom /\ ~next => Lowest'
  <1> SUFFICES ASSUME TypeInv, BootRom, ~next
               PROVE  Lowest'
    OBVIOUS
  <1>1. PICK c \in Usable : c = idx' /\ \A d \in Usable : Distance(c) <= Distance(d)
    BY DEF BootRom
  <1>2. \A d \in Copies : Distance(d) = d - First
    BY DEF Distance, Copies, First
  <1>3. Usable \subseteq Copies /\ Copies \subseteq 0..2 /\ First \in {0, 1}
    BY DEF Usable, Copies, First
  <1>4. \A d \in Usable : c <= d
    BY <1>1, <1>2, <1>3
  <1>5. Usable' = Usable
    BY DEF BootRom, Usable, Copies, First, device
  <1> QED BY <1>1, <1>4, <1>5 DEF Lowest

\* What a step leaves of a request.
AsksStill == /\ Asked' = Asked /\ env'.write_boot = env.write_boot
             /\ Resetting' = Resetting /\ Step' = Step

LEMMA RecoveryEnv ==
    ASSUME env \in Env
    PROVE  /\ aml_update_env => ~Asked' \/ (env' = env /\ (env.write_boot \/ ~Resetting))
           /\ StartTrial => Asked' = Asked /\ Resetting' /\ Step' # 1
           /\ TrialFailed => Asked' = Asked /\ Step' = 0
           /\ ClearRecoveryNeedUpdate => ~Asked'
           /\ \/ BootRom \/ BootRomFails \/ NoFastbootStep \/ SkipRecovery \/ StartRecoveryUpdate
              \/ FinishRecoveryUpdate \/ switch_bootmode \/ NoSecureCheck \/ StartCheck
              \/ FinishCheck \/ CheckFails
              => AsksStill
           /\ \/ FinishWriteBoot \/ set_default_env \/ set_fastboot_step \/ check_fastboot_step
              \/ UserReboots \/ StartFastboot \/ RequestWriteBoot \/ FinishRobustUpdate
              => Asked' = Asked
           /\ PowerCut => env' = env \/ (env' = DefaultEnv /\ ~Asked')
  <1> USE DEF Asked, Resetting, Step, Env
  <1>1. aml_update_env => ~Asked' \/ (env' = env /\ (env.write_boot \/ ~Resetting))
    <2>1. Reserved(env).recovery_need_update = FALSE
      <3>1. DefaultEnv \in Env /\ DefaultEnv.recovery_need_update = FALSE
        BY DEF DefaultEnv
      <3> QED BY <3>1 DEF Reserved
    <2> QED BY <2>1 DEF aml_update_env
  <1>2. StartTrial => Asked' = Asked /\ Resetting' /\ Step' # 1
    BY DEF StartTrial, TrialStep
  <1>3. TrialFailed => Asked' = Asked /\ Step' = 0
    BY DEF TrialFailed
  <1>4. ClearRecoveryNeedUpdate => ~Asked'
    BY DEF ClearRecoveryNeedUpdate
  <1>5. BootRom \/ BootRomFails \/ NoFastbootStep \/ SkipRecovery \/ StartRecoveryUpdate
        \/ FinishRecoveryUpdate \/ switch_bootmode
        => AsksStill
    BY DEF AsksStill, BootRom, BootRomFails, NoFastbootStep, SkipRecovery, StartRecoveryUpdate,
           FinishRecoveryUpdate, switch_bootmode, Requested
  <1>6. NoSecureCheck \/ StartCheck \/ FinishCheck \/ CheckFails => AsksStill
    BY DEF AsksStill, NoSecureCheck, StartCheck, FinishCheck, CheckFails
  <1>7. \/ FinishWriteBoot \/ set_default_env \/ set_fastboot_step \/ check_fastboot_step
        \/ UserReboots \/ StartFastboot \/ RequestWriteBoot \/ FinishRobustUpdate
        => Asked' = Asked
    BY DEF FinishWriteBoot, set_default_env, set_fastboot_step, check_fastboot_step,
           UserReboots, StartFastboot, RequestWriteBoot, FinishRobustUpdate
  <1>8. PowerCut => env' = env \/ (env' = DefaultEnv /\ ~Asked')
    BY DEF PowerCut, DefaultEnv
  <1> QED BY <1>1, <1>2, <1>3, <1>4, <1>5, <1>6, <1>7, <1>8

LEMMA RecoveryBoot == RInv /\ Boot => RequestKept' /\ UpdateRepeats'
  <1> SUFFICES ASSUME RInv, Boot PROVE RequestKept' /\ UpdateRepeats'
    OBVIOUS
  <1> USE DEF RInv
  <1>1. Still /\ env \in Env /\ First' = First
    BY BootSteps DEF Still, First, TypeInv, TypeOK
  <1>2. idx' = idx => Usable' = Usable /\ Lowest' = Lowest
    BY <1>1 DEF Still, Usable, Copies, Lowest
  <1>3. Usable' = Usable
    BY <1>1 DEF Still, Usable, Copies
  <1>4. Lowest => First \notin Usable \/ idx = First
    BY DEF Lowest, Usable, Copies, First
  <1> USE DEF RequestKept, UpdateRepeats, Writing, Again, Still
  <1>5. CASE BootRom \/ BootRomFails
    <2>1. AsksStill
      BY <1>1, <1>5, RecoveryEnv
    <2>2. UNCHANGED recovery /\ UNCHANGED recoverybak /\ pc = "rom"
      BY <1>5 DEF BootRom, BootRomFails, partitions
    <2>3. CASE BootRom
      <3>1. pc' = "aml_update_env" /\ ~next'
        BY <2>3 DEF BootRom
      <3> QED BY <1>1, <1>3, <2>1, <2>2, <2>3, <3>1, LowestStarts DEF AsksStill
    <2>4. CASE BootRomFails
      <3>1. pc' = "bricked" /\ UNCHANGED next
        BY <2>4 DEF BootRomFails
      <3> QED BY <1>1, <1>3, <2>1, <2>2, <3>1 DEF AsksStill
    <2> QED BY <1>5, <2>3, <2>4
  <1>6. CASE aml_update_env
    <2>1. ~Asked' \/ (env' = env /\ (env.write_boot \/ ~Resetting))
      BY <1>1, <1>6, RecoveryEnv
    <2>2. /\ pc = "aml_update_env" /\ pc' = "fastboot_step_check"
          /\ UNCHANGED <<idx, next, recovery, recoverybak>>
      BY <1>6 DEF aml_update_env, partitions
    <2>3. env' = env => Asked' = Asked /\ Resetting' = Resetting /\ Step' = Step
      BY DEF Asked, Resetting, Step
    <2>4. recovery = Torn /\ cuts <= 1 => env' = env
      BY <1>6 DEF aml_update_env, Resetting
    <2> QED BY <1>1, <1>2, <1>3, <2>1, <2>2, <2>3, <2>4
  <1>7. CASE StartTrial
    <2>1. Asked' = Asked /\ Resetting' /\ Step = 1
      BY <1>1, <1>7, RecoveryEnv DEF StartTrial, Step
    <2>2. pc = "fastboot_step_check" /\ pc' = "rom" /\ UNCHANGED <<recovery, recoverybak>>
      BY <1>7 DEF StartTrial, Reboot, partitions
    <2> QED BY <1>1, <2>1, <2>2
  <1>8. CASE TrialFailed
    <2>1. Asked' = Asked /\ Step = 2 /\ idx = First
      BY <1>1, <1>8, RecoveryEnv DEF TrialFailed, Step
    <2>2. pc = "fastboot_step_check" /\ pc' = "cli" /\ UNCHANGED <<recovery, recoverybak, next>>
      BY <1>8 DEF TrialFailed, partitions
    <2>3. ~(recovery = Torn /\ cuts <= 1)
      BY <1>4, <2>1, <2>2 DEF Lowest
    <2> QED BY <1>1, <2>1, <2>2, <2>3
  <1>9. CASE NoFastbootStep
    <2>1. AsksStill /\ Step # 1 /\ (Step = 2 => idx # First)
      BY <1>1, <1>9, RecoveryEnv DEF NoFastbootStep, Step
    <2>2. pc = "fastboot_step_check" /\ pc' = "non_ab_update"
          /\ UNCHANGED <<idx, next, recovery, recoverybak>>
      BY <1>9 DEF NoFastbootStep, partitions
    <2> QED BY <1>1, <1>2, <1>3, <2>1, <2>2 DEF AsksStill
  <1>10. CASE SkipRecovery
    <2>1. AsksStill /\ ~Asked
      BY <1>1, <1>10, RecoveryEnv DEF SkipRecovery, Asked
    <2>2. pc = "non_ab_update" /\ pc' = "check" /\ UNCHANGED <<idx, next, recovery, recoverybak>>
      BY <1>10 DEF SkipRecovery, partitions
    <2> QED BY <1>1, <2>1, <2>2 DEF AsksStill
  <1>11. CASE StartRecoveryUpdate
    <2>1. AsksStill /\ Asked /\ ~env.write_boot /\ recoverybak # Torn
      BY <1>1, <1>11, RecoveryEnv DEF StartRecoveryUpdate, Asked
    <2>2. pc = "non_ab_update" /\ pc' = "recovery_update" /\ UNCHANGED <<idx, next, recoverybak>>
      BY <1>11 DEF StartRecoveryUpdate
    <2>3. Step = 2 => First \notin Usable
      BY <1>4, <2>1, <2>2
    <2> QED BY <1>1, <1>2, <1>3, <2>1, <2>2, <2>3 DEF AsksStill
  <1>12. CASE FinishRecoveryUpdate \/ ClearRecoveryNeedUpdate
    <2>1. CASE FinishRecoveryUpdate
      <3>1. AsksStill
        BY <1>1, <2>1, RecoveryEnv
      <3>2. pc = "recovery_update" /\ pc' = "recovery_saved" /\ recovery' = recoverybak
            /\ UNCHANGED <<idx, next, recoverybak>>
        BY <2>1 DEF FinishRecoveryUpdate
      <3>3. recovery = Torn /\ cuts <= 1 => recovery' # Torn
        BY <3>2
      <3> QED BY <1>1, <3>1, <3>2, <3>3 DEF AsksStill
    <2>2. CASE ClearRecoveryNeedUpdate
      <3>1. ~Asked' /\ pc = "recovery_saved" /\ pc' = "check"
            /\ UNCHANGED <<next, recovery, recoverybak>>
        BY <1>1, <2>2, RecoveryEnv DEF ClearRecoveryNeedUpdate, partitions
      <3> QED BY <1>1, <3>1
    <2> QED BY <1>12, <2>1, <2>2
  <1>13. CASE NoSecureCheck \/ StartCheck \/ FinishCheck \/ CheckFails \/ switch_bootmode
    <2>1. AsksStill
      BY <1>1, <1>13, RecoveryEnv
    <2>2. /\ pc \in {"check", "check_failed", "switch_bootmode"}
          /\ pc' \in {"rom", "switch_bootmode", "recovery", "check_failed", "fastboot", "kernel"}
          /\ UNCHANGED <<recovery, recoverybak>>
          /\ StartCheck \/ next' = next
          /\ StartCheck => pc = "check" /\ pc' = "rom"
      BY <1>13 DEF NoSecureCheck, StartCheck, FinishCheck, CheckFails, switch_bootmode, Reboot,
                   partitions
    <2> QED BY <1>1, <2>1, <2>2 DEF AsksStill
  <1> QED BY <1>5, <1>6, <1>7, <1>8, <1>9, <1>10, <1>11, <1>12, <1>13
          DEF Boot, fastboot_step_check, recovery_update

LEMMA RecoveryRequest == RInv /\ Request => RequestKept' /\ UpdateRepeats'
  <1> SUFFICES ASSUME RInv, Request PROVE RequestKept' /\ UpdateRepeats'
    OBVIOUS
  <1> USE DEF RInv
  <1>1. UNCHANGED <<gpt, accepted, copies, writes, cuts>> /\ env \in Env
    BY RequestSteps DEF TypeInv, TypeOK
  <1> USE DEF RequestKept, UpdateRepeats, Writing, Again
  <1>2. CASE RequestRecoveryUpdate
    <2>1. recoverybak' # Torn
      BY <1>2, Constants, NextBuild DEF RequestRecoveryUpdate, TypeInv
    <2>2. pc = "kernel" /\ pc' = pc /\ UNCHANGED <<next, recovery>>
      BY <1>2 DEF RequestRecoveryUpdate
    <2> QED BY <1>1, <2>1, <2>2
  <1>3. CASE set_default_env \/ set_fastboot_step \/ StartFastboot
    <2>1. Asked' = Asked
      BY <1>1, <1>3, RecoveryEnv
    <2>2. /\ pc \in {"flash", "set_fastboot_step", "cli"}
          /\ pc' \in {"set_fastboot_step", "fastboot"}
          /\ UNCHANGED <<next, recovery, recoverybak>>
          /\ pc = "flash" => writes = <<>>
      BY <1>3 DEF set_default_env, set_fastboot_step, StartFastboot, partitions, Written
    <2> QED BY <1>1, <2>1, <2>2
  <1>4. CASE FinishWriteBoot \/ check_fastboot_step \/ UserReboots \/ RequestWriteBoot
             \/ FinishRobustUpdate
    <2>1. Asked' = Asked
      BY <1>1, <1>4, RecoveryEnv
    <2>2. /\ pc \in {"write_boot", "check_fastboot_step", "kernel", "recovery", "cli",
                     "robust_update"}
          /\ pc' = "rom" /\ ~next' /\ UNCHANGED <<recovery, recoverybak>> /\ writes = <<>>
      BY <1>4 DEF FinishWriteBoot, check_fastboot_step, UserReboots, RequestWriteBoot,
                  FinishRobustUpdate, Reboot, partitions, Written
    <2> QED BY <1>1, <2>1, <2>2
  <1> QED BY <1>2, <1>3, <1>4 DEF Request

LEMMA RecoveryWrites ==
    ASSUME RInv, \/ StartWriteBoot \/ write_bootloader \/ flash \/ FastbootReboot
                 \/ StartRobustUpdate
    PROVE  RequestKept' /\ UpdateRepeats'
  <1> USE DEF RInv, RequestKept, UpdateRepeats, Writing, Again
  <1>1. UNCHANGED <<env, cuts, recovery, recoverybak>>
    BY DEF StartWriteBoot, write_bootloader, flash, FastbootReboot, StartRobustUpdate, partitions
  <1>2. Asked' = Asked /\ Resetting' = Resetting /\ Step' = Step
    BY <1>1 DEF Asked, Resetting, Step
  <1>3. CASE StartWriteBoot
    <2>1. pc = "non_ab_update" /\ env.write_boot /\ pc' = "write_boot" /\ next' = next
      BY <1>3 DEF StartWriteBoot
    <2> QED BY <1>1, <1>2, <2>1
  <1>4. CASE write_bootloader
    <2>1. UNCHANGED <<pc, next>> /\ writes # <<>>
      BY <1>4 DEF write_bootloader
    <2> QED BY <1>1, <1>2, <2>1
  <1>5. CASE flash \/ StartRobustUpdate
    <2>1. pc \in {"fastboot", "recovery"} /\ pc' \in {"flash", "robust_update"} /\ next' = next
      BY <1>5 DEF flash, StartRobustUpdate
    <2> QED BY <1>1, <1>2, <2>1
  <1>6. CASE FastbootReboot
    <2>1. /\ pc = "fastboot" /\ writes = <<>>
          /\ \/ pc' = "check_fastboot_step" /\ next' = next
             \/ pc' = "rom" /\ ~next' /\ writes' = writes
      BY <1>6 DEF FastbootReboot, Reboot, Written
    <2> QED BY <1>1, <1>2, <2>1
  <1> QED BY <1>3, <1>4, <1>5, <1>6

LEMMA RecoveryCut == RInv /\ PowerCut => RequestKept' /\ UpdateRepeats'
  <1> SUFFICES ASSUME RInv, PowerCut PROVE RequestKept' /\ UpdateRepeats'
    OBVIOUS
  <1> USE DEF RInv, RequestKept, UpdateRepeats, Writing, Again
  <1>1. /\ UNCHANGED <<gpt, accepted, copies, recovery, recoverybak>> /\ cuts' = cuts + 1
        /\ writes' = <<>> /\ pc' = "rom" /\ ~next' /\ cuts \in Nat /\ env \in Env
        /\ pc \notin {"rom", "bricked"}
    BY DEF PowerCut, Reboot, device, partitions, TypeInv, TypeOK
  <1>2. Usable' = Usable /\ First' = First
    BY <1>1 DEF Usable, Copies, First
  <1>3. env' = env => Asked' = Asked /\ Resetting' = Resetting /\ Step' = Step
    BY DEF Asked, Resetting, Step
  <1>4. env' = env \/ (env' = DefaultEnv /\ ~Asked')
    BY <1>1, RecoveryEnv
  <1>5. pc = "recovery_update" => env' = env
    BY DEF PowerCut, Saving, SavingWhenWritten
  <1>6. recovery' = Torn /\ cuts' <= 1 => pc = "recovery_update" /\ cuts' = 1
    BY <1>1
  <1>7. RequestKept'
    BY <1>1, <1>3, <1>4
  <1>8. UpdateRepeats'
    BY <1>1, <1>2, <1>3, <1>5, <1>6
  <1> QED BY <1>7, <1>8

LEMMA RInvKept == RInv /\ [Next]_vars => RInv'
  <1> SUFFICES ASSUME RInv, [Next]_vars PROVE RInv'
    OBVIOUS
  <1>1. TypeInv'
    BY TypesKept DEF RInv
  <1>2. CASE Boot
    BY <1>1, <1>2, RecoveryBoot DEF RInv
  <1>3. CASE Request
    BY <1>1, <1>3, RecoveryRequest DEF RInv
  <1>4. CASE StartWriteBoot \/ write_bootloader \/ flash \/ FastbootReboot \/ StartRobustUpdate
    BY <1>1, <1>4, RecoveryWrites DEF RInv
  <1>5. CASE PowerCut
    BY <1>1, <1>5, RecoveryCut DEF RInv
  <1>6. CASE UNCHANGED vars
    BY <1>1, <1>6
       DEF RInv, RequestKept, UpdateRepeats, Asked, Resetting, Lowest, Step, Usable, First, Copies,
           vars, device, partitions
  <1> QED BY <1>2, <1>3, <1>4, <1>5, <1>6
          DEF Next, UBoot, Outside, Boot, Request, non_ab_update

\* The recovery that is started is whole, whatever one power cut interrupts, for every
\* number of images, with and without a GPT, and also when a host flashes during a trial.
THEOREM NonAbRecoveryWhole == Spec => []RecoveryWhole
  <1>1. Init => RInv
    <2> SUFFICES ASSUME Init PROVE RInv
      OBVIOUS
    <2>1. TypeInv
      BY InitTypes DEF Init, TypeInv, Copies, First
    <2>2. ~Asked /\ writes = <<>> /\ ~next /\ pc = "rom" /\ recovery # Torn
      BY DEF Init, DefaultEnv, Asked, Torn
    <2> QED BY <2>1, <2>2 DEF RInv, RequestKept, UpdateRepeats
  <1>2. RInv => RecoveryWhole
    BY DEF RInv, UpdateRepeats, RecoveryWhole, Again
  <1> QED BY <1>1, <1>2, RInvKept, PTL DEF Spec

-----------------------------------------------------------------------------
(* A first copy that works is replaced only after a trial, or by write_boot. *)

Ok(c) == copies[c] \in accepted
Twins == gpt \/ copies[1] = copies[2]

\* The copy whose bootloader a trial that succeeds writes over the others.
Tried == IF gpt THEN 2 ELSE 1

\* A bootloader is written to boot0 and then to boot1.
WriteForm ==
    \/ writes = <<Write(bootloader_up, 1), Write(bootloader_up, 2)>>
    \/ writes = <<Write(bootloader_up, 2)>> /\ copies[1] = bootloader_up
    \/ writes = <<>> /\ copies[1] = bootloader_up /\ copies[2] = bootloader_up

\* The first copy is written first, and only with the bootloader that runs.
TrialForm ==
    /\ Ok(Tried) /\ Step = 2
    /\ \/ writes = TrialCopies /\ (Ok(First) => copies[idx] = copies[Tried])
       \/ ~gpt /\ writes = <<Write(copies[1], 2)>> /\ Ok(First)
       \/ writes = <<>> /\ Ok(First)

\* The lists of writes, by who writes them: a flash spares the first copy.
Lists ==
    /\ pc = "write_boot" => env.write_boot /\ WriteForm
    /\ pc = "check_fastboot_step" => TrialForm
    /\ pc = "flash" => /\ gpt \/ WriteForm
                       /\ idx = First
                       /\ gpt => \A i \in DOMAIN writes : writes[i].dst = 2
    /\ pc = "robust_update" =>
         \A i \in DOMAIN writes : /\ writes[i].dst > First
                                  /\ gpt \/ Ok(First) \/ writes[i].dst # 1

\* A bad first copy is one that the end of a trial, or write_boot, is going to write
\* again: the trial is not over, and the copy that was tried is good.
BadFirst ==
    /\ ~Ok(First) => /\ Step = 2 \/ (env.write_boot /\ gpt)
                     /\ ~gpt /\ pc # "write_boot" => Ok(1)
    /\ env.write_boot => /\ bootloader_up \in accepted /\ Step # 1
                         /\ pc \in {"rom", "bricked", "aml_update_env", "fastboot_step_check",
                                    "non_ab_update", "write_boot"}
                         /\ Step = 2 /\ pc # "write_boot" => ~Ok(First)
    /\ Status # "init" => /\ Step # 1
                          /\ Step = 2 => ~gpt /\ ~Ok(First)
                          /\ pc \notin {"cli", "switch_bootmode", "kernel", "fastboot", "flash",
                                        "set_fastboot_step", "check_fastboot_step"}
    /\ Step = 2 /\ pc \in {"recovery", "check_failed", "robust_update"} => ~Ok(First)
    /\ Step = 2 /\ pc = "robust_update" => ~gpt
    /\ pc = "cli" => Step = 0

\* Another copy than the first runs only in a trial or a check, or because the first one
\* is bad; the copy that runs is good.
Runs ==
    /\ next => Step = 2 \/ Status = "finish"
    /\ idx # First /\ pc \notin {"rom", "bricked", "recovery", "check_failed", "robust_update"}
         => Step = 2 \/ (Status = "finish" /\ pc \in Booting) \/ env.write_boot
    /\ pc \in Booting \cup {"switch_bootmode"} \/ (pc = "fastboot" /\ Step = 2) => Ok(idx)

\* A trial that ends in fastboot began there, right after a flash: boot1 then has the
\* bootloader that is tried as well as boot0.
TrialEnds ==
    /\ pc = "fastboot" /\ Step = 2 => mode = "fastboot"
    /\ pc = "set_fastboot_step" \/ (pc = "fastboot" /\ Step = 1) => Twins
    /\ Step = 2 /\ next => mode = "normal" \/ (mode = "fastboot" /\ Twins)
    /\ Step = 2 /\ idx # First /\ Ok(First) /\ pc \in Booting \cup {"switch_bootmode", "fastboot"}
         => mode = "normal" \/ (mode = "fastboot" /\ Twins)
    /\ Step = 1 /\ mode = "fastboot" /\ pc \in {"rom", "aml_update_env", "fastboot_step_check"}
         => Twins

Tries == Lists /\ BadFirst /\ Runs /\ TrialEnds

\* What depends on the copies and on nothing else.
LEMMA OkStill ==
    ASSUME UNCHANGED <<gpt, accepted, copies>>
    PROVE  /\ First' = First /\ Tried' = Tried /\ Twins' = Twins /\ TrialCopies' = TrialCopies
           /\ \A c \in 0..2 : Ok(c)' = Ok(c)
           /\ Ok(First)' = Ok(First) /\ Ok(1)' = Ok(1) /\ Ok(Tried)' = Ok(Tried)
           /\ idx' = idx => Ok(idx)' = Ok(idx)
  BY DEF First, Tried, Twins, TrialCopies, Write, Ok

LEMMA TriesBoot ==
    ASSUME TypeInv, General, Tries, Boot
    PROVE  Tries'
  <1> USE DEF Writing, Early, Booting, Update
  <1>1. Still
    BY BootSteps
  <1>2. UNCHANGED <<gpt, accepted, copies>>
    BY <1>1 DEF Still
  <1>3. /\ First' = First /\ Twins' = Twins /\ Ok(First)' = Ok(First) /\ Ok(1)' = Ok(1)
        /\ idx' = idx => Ok(idx)' = Ok(idx)
    BY <1>2, OkStill
  <1>4. First \in Copies /\ Step \in 0..2
    BY DEF First, Copies, TypeInv, TypeOK, Env, Step
  <1> USE DEF Tries, Lists, BadFirst, Runs, TrialEnds
  <1>5. CASE BootRom
    <2>1. /\ pc = "rom" /\ pc' = "aml_update_env" /\ ~next' /\ mode' = mode
          /\ Asks(env.write_boot, Step, Status)
      BY <1>5, BootSteps DEF BootRom
    <2>2. Ok(idx)' /\ (~next /\ Ok(First) => idx' = First)
      BY <1>4, <1>5, FirstStarts DEF BootRom, Usable, Ok, device
    <2> QED BY <1>1, <1>2, <1>3, <2>1, <2>2 DEF Asks, Still
  <1>6. CASE BootRomFails
    <2>1. pc = "rom" /\ pc' = "bricked" /\ UNCHANGED <<idx, next, mode>>
          /\ Asks(env.write_boot, Step, Status)
      BY <1>6, BootSteps DEF BootRomFails
    <2> QED BY <1>1, <1>2, <1>3, <2>1 DEF Asks, Still
  <1>7. CASE aml_update_env
    <2>1. pc = "aml_update_env" /\ pc' = "fastboot_step_check" /\ UNCHANGED <<idx, next, mode>>
          /\ Asks(env.write_boot, Step, Status)
      BY <1>7, BootSteps DEF aml_update_env
    <2> QED BY <1>1, <1>2, <1>3, <2>1 DEF Asks, Still
  <1>8. CASE StartTrial
    <2>1. /\ pc = "fastboot_step_check" /\ pc' = "rom" /\ Step = 1 /\ idx' = idx
          /\ mode' = IF mode = "fastboot" THEN "fastboot" ELSE "normal"
          /\ Asks(env.write_boot, 2, Status)
      BY <1>8, BootSteps DEF StartTrial, Reboot, Step
    <2> QED BY <1>1, <1>2, <1>3, <2>1 DEF Asks, Still
  <1>9. CASE TrialFailed
    <2>1. /\ pc = "fastboot_step_check" /\ pc' = "cli" /\ Step = 2 /\ idx = First
          /\ UNCHANGED <<idx, next, mode>>
          /\ Asks(env.write_boot, 0, Status)
      BY <1>9, BootSteps DEF TrialFailed, Step
    <2>2. Ok(First) /\ ~env.write_boot /\ Status = "init"
      BY <2>1
    <2> QED BY <1>1, <1>2, <1>3, <2>1, <2>2 DEF Asks, Still, General
  <1>10. CASE NoFastbootStep
    <2>1. pc = "fastboot_step_check" /\ pc' = "non_ab_update" /\ UNCHANGED <<idx, next, mode>>
          /\ Asks(env.write_boot, Step, Status)
      BY <1>10, BootSteps DEF NoFastbootStep
    <2> QED BY <1>1, <1>2, <1>3, <2>1 DEF Asks, Still
  <1>11. CASE recovery_update
    <2>1. /\ pc \in {"non_ab_update", "recovery_update", "recovery_saved"}
          /\ pc' \in {"recovery_update", "recovery_saved", "check"}
          /\ pc = "non_ab_update" => ~env.write_boot
          /\ UNCHANGED <<idx, next, mode>>
      BY <1>11 DEF recovery_update, SkipRecovery, StartRecoveryUpdate, FinishRecoveryUpdate,
                   ClearRecoveryNeedUpdate
    <2>2. Asks(env.write_boot, Step, Status) /\ ~env.write_boot
      BY <1>11, <2>1, BootSteps
    <2> QED BY <1>1, <1>2, <1>3, <2>1, <2>2 DEF Asks, Still
  <1>12. CASE NoSecureCheck
    <2>1. /\ pc = "check" /\ pc' = "switch_bootmode" /\ Status # "finish" /\ Status # "next"
          /\ UNCHANGED <<idx, next, mode>>
          /\ Asks(env.write_boot, Step, "init")
      BY <1>12, BootSteps DEF NoSecureCheck, Status
    <2> QED BY <1>1, <1>2, <1>3, <2>1 DEF Asks, Still
  <1>13. CASE StartCheck
    <2>1. pc = "check" /\ pc' = "rom" /\ Status = "next" /\ mode' = "normal" /\ next' = TRUE
          /\ idx' = idx /\ Asks(env.write_boot, Step, "finish")
      BY <1>13, BootSteps DEF StartCheck, Reboot, Status
    <2> QED BY <1>1, <1>2, <1>3, <2>1 DEF Asks, Still
  <1>14. CASE FinishCheck
    <2>1. /\ pc = "check" /\ pc' \in {"check_failed", "recovery"} /\ Status = "finish"
          /\ UNCHANGED <<idx, next, mode>>
          /\ Asks(env.write_boot, Step, "end")
      BY <1>14, BootSteps DEF FinishCheck, Status
    <2>2. Step # 1 /\ (Step = 2 => ~Ok(First) /\ ~gpt) /\ ~env.write_boot
      BY <2>1
    <2>3. Step' = Step /\ Status' = "end" /\ ~env'.write_boot
      BY <2>1, <2>2 DEF Asks
    <2>4. BadFirst'
      BY <1>1, <1>2, <1>3, <2>1, <2>2, <2>3
    <2>5. Runs' /\ TrialEnds' /\ Lists'
      BY <1>1, <1>2, <1>3, <2>1, <2>2, <2>3 DEF General
    <2> QED BY <2>4, <2>5
  <1>15. CASE CheckFails
    <2>1. /\ pc = "check_failed" /\ pc' = "recovery" /\ UNCHANGED <<idx, next, mode>>
          /\ Asks(env.write_boot, Step, Status)
      BY <1>15, BootSteps DEF CheckFails
    <2> QED BY <1>1, <1>2, <1>3, <2>1 DEF Asks, Still
  <1>16. CASE switch_bootmode
    <2>1. /\ pc = "switch_bootmode" /\ UNCHANGED <<idx, next, mode>>
          /\ pc' = IF mode = "factory_reset" THEN "recovery"
                   ELSE IF mode = "fastboot" THEN "fastboot" ELSE "kernel"
          /\ Asks(env.write_boot, Step, Status)
      BY <1>16, BootSteps DEF switch_bootmode
    <2>2. Step = 2 => idx # First
      BY <2>1 DEF General
    <2>3. Step # 1
      BY <2>1 DEF General
    <2> QED BY <1>1, <1>2, <1>3, <2>1, <2>2, <2>3 DEF Asks, Still
  <1> QED BY <1>5, <1>6, <1>7, <1>8, <1>9, <1>10, <1>11, <1>12, <1>13, <1>14, <1>15, <1>16
          DEF Boot, fastboot_step_check

LEMMA TriesRequest ==
    ASSUME TypeInv, General, Tries, Request
    PROVE  Tries'
  <1> USE DEF Writing, Early, Booting, Update
  <1>1. UNCHANGED <<gpt, accepted, copies, writes, cuts>> /\ idx' = idx
        /\ (RequestWriteBoot \/ bootloader_up' = bootloader_up)
    BY RequestSteps
       DEF Request, FinishWriteBoot, set_default_env, set_fastboot_step,
           check_fastboot_step, UserReboots, StartFastboot, RequestRecoveryUpdate,
           RequestWriteBoot, FinishRobustUpdate
  <1>2. /\ First' = First /\ Twins' = Twins /\ Ok(First)' = Ok(First) /\ Ok(1)' = Ok(1)
        /\ Ok(idx)' = Ok(idx)
    BY <1>1, OkStill
  <1>3. Step \in 0..2
    BY DEF TypeInv, TypeOK, Env, Step
  <1> USE DEF Tries, Lists, BadFirst, Runs, TrialEnds
  <1>4. CASE FinishWriteBoot
    <2>1. pc = "write_boot" /\ writes = <<>> /\ pc' = "rom" /\ mode' = "normal" /\ ~next'
          /\ Asks(FALSE, Step, Status)
      BY <1>4, RequestSteps DEF FinishWriteBoot, Written, Reboot
    <2>2. copies[1] = bootloader_up /\ copies[2] = bootloader_up
      BY <2>1 DEF WriteForm
    <2>3. Ok(1) /\ (gpt => Ok(First))
      BY <2>1, <2>2 DEF Ok, First
    <2> QED BY <1>1, <1>2, <2>1, <2>3 DEF Asks
  <1>5. CASE set_default_env
    <2>1. /\ pc = "flash" /\ writes = <<>> /\ pc' \in {"set_fastboot_step", "fastboot"}
          /\ UNCHANGED <<next, mode>>
          /\ Asks(env.write_boot, Step, Status)
      BY <1>5, RequestSteps DEF set_default_env, Written
    <2>2. Twins /\ Step # 2
      BY <2>1 DEF WriteForm, Twins, General
    <2> QED BY <1>1, <1>2, <2>1, <2>2 DEF Asks, General
  <1>6. CASE set_fastboot_step
    <2>1. /\ pc = "set_fastboot_step" /\ pc' = "fastboot" /\ UNCHANGED <<next, mode>>
          /\ Asks(env.write_boot, 1, Status) /\ Step # 2
      BY <1>6, RequestSteps DEF set_fastboot_step, General
    <2> QED BY <1>1, <1>2, <2>1 DEF Asks, General
  <1>7. CASE check_fastboot_step
    <2>1. /\ pc = "check_fastboot_step" /\ writes = <<>> /\ pc' = "rom" /\ ~next'
          /\ Asks(env.write_boot, 0, Status)
      BY <1>7, RequestSteps DEF check_fastboot_step, Reboot, Written
    <2>2. Ok(First)
      BY <2>1, TrialCopiesOk DEF TrialForm, TypeInv
    <2> QED BY <1>1, <1>2, <2>1, <2>2 DEF Asks
  <1>8. CASE UserReboots
    <2>1. /\ pc \in {"kernel", "recovery", "cli"} /\ pc' = "rom" /\ ~next'
          /\ Asks(env.write_boot, Step, Status)
      BY <1>8, RequestSteps DEF UserReboots, Reboot
    <2> QED BY <1>1, <1>2, <2>1 DEF Asks, General
  <1>9. CASE StartFastboot
    <2>1. /\ pc = "cli" /\ pc' = "fastboot" /\ UNCHANGED <<next, mode>>
          /\ Asks(env.write_boot, Step, Status)
      BY <1>9, RequestSteps DEF StartFastboot
    <2> QED BY <1>1, <1>2, <2>1 DEF Asks
  <1>10. CASE RequestRecoveryUpdate
    <2>1. /\ pc = "kernel" /\ pc' = "kernel" /\ UNCHANGED <<next, mode>>
          /\ Asks(env.write_boot, Step, Status)
      BY <1>10, RequestSteps DEF RequestRecoveryUpdate
    <2> QED BY <1>1, <1>2, <2>1 DEF Asks
  <1>11. CASE RequestWriteBoot
    <2>1. /\ pc = "recovery" /\ pc' = "rom" /\ ~next' /\ mode' = "normal"
          /\ bootloader_up' \in accepted /\ Asks(TRUE, Step, Status)
      BY <1>11, RequestSteps DEF RequestWriteBoot, Reboot
    <2> QED BY <1>1, <1>2, <2>1 DEF Asks, General
  <1>12. CASE FinishRobustUpdate
    <2>1. /\ pc = "robust_update" /\ pc' = "rom" /\ ~next' /\ mode' = "normal"
          /\ Asks(env.write_boot, Step, "next")
      BY <1>12, RequestSteps DEF FinishRobustUpdate, Reboot
    <2> QED BY <1>1, <1>2, <2>1 DEF Asks, General
  <1> QED BY <1>4, <1>5, <1>6, <1>7, <1>8, <1>9, <1>10, <1>11, <1>12 DEF Request

\* A list of boot0 and boot1 goes on.
LEMMA WriteFormKept ==
    ASSUME TypeInv, WriteForm, write_bootloader
    PROVE  /\ WriteForm'
           /\ Head(writes).dst \in {1, 2}
  <1> DEFINE v == Write(bootloader_up, 1)
             w == Write(bootloader_up, 2)
  <1>1. /\ v \in [img : Images, dst : 0..2] /\ v.img = bootloader_up /\ v.dst = 1
        /\ w \in [img : Images, dst : 0..2] /\ w.img = bootloader_up /\ w.dst = 2
    BY WriteType DEF TypeInv, TypeOK
  <1>2. v' = v /\ w' = w /\ bootloader_up' = bootloader_up /\ writes # <<>>
    BY WriteStep DEF partitions
  <1>3. /\ \A c \in 0..2 : c # Head(writes).dst => copies'[c] = copies[c]
        /\ \/ copies'[Head(writes).dst] = Torn /\ writes' = writes
           \/ copies'[Head(writes).dst] = Head(writes).img /\ writes' = Tail(writes)
    BY WriteStep
  <1>4. \/ writes = <<v, w>>
        \/ writes = <<w>> /\ copies[1] = bootloader_up
    BY <1>2 DEF WriteForm
  <1>5. SUFFICES /\ \/ writes' = <<v, w>>
                    \/ writes' = <<w>> /\ copies'[1] = bootloader_up
                    \/ writes' = <<>> /\ copies'[1] = bootloader_up /\ copies'[2] = bootloader_up
                 /\ Head(writes).dst \in {1, 2}
    BY <1>2 DEF WriteForm
  <1> HIDE DEF v, w
  <1>6. CASE writes = <<v, w>>
    BY <1>1, <1>3, <1>6, TwoWrites
  <1>7. CASE writes = <<w>> /\ copies[1] = bootloader_up
    <2>1. Head(writes) = w /\ Tail(writes) = <<>>
      BY <1>1, <1>7, OneWrite
    <2> QED BY <1>1, <1>3, <1>7, <2>1
  <1> QED BY <1>4, <1>6, <1>7

\* So does the end of a trial: the first copy is written first, with the bootloader
\* that was tried.
LEMMA TrialFormKept ==
    ASSUME TypeInv, General, TrialForm, write_bootloader
    PROVE  /\ TrialForm'
           /\ Head(writes).img = copies[Tried]
           /\ Ok(First) /\ Head(writes).dst = First => Head(writes).img = copies[idx]
           /\ Head(writes).dst # Tried
  <1> DEFINE v == Write(copies[1], 0)
             w == Write(copies[1], 2)
             u == Write(copies[2], 1)
             h == Head(writes)
  <1>1. /\ u \in [img : Images, dst : 0..2] /\ u.img = copies[2] /\ u.dst = 1
        /\ v \in [img : Images, dst : 0..2] /\ v.img = copies[1] /\ v.dst = 0
        /\ w \in [img : Images, dst : 0..2] /\ w.img = copies[1] /\ w.dst = 2
    BY WriteType DEF TypeInv, TypeOK
  <1>2. /\ UNCHANGED <<gpt, accepted, idx>> /\ writes # <<>> /\ h.dst \in 0..2
        /\ First' = First /\ Tried' = Tried /\ Step' = Step
    BY WriteStep DEF device, First, Tried, Step
  <1>3. /\ \A c \in 0..2 : c # h.dst => copies'[c] = copies[c]
        /\ \/ copies'[h.dst] = Torn /\ writes' = writes
           \/ copies'[h.dst] = h.img /\ writes' = Tail(writes)
    BY WriteStep
  <1>4. Torn \notin accepted
    BY Constants DEF TypeInv, TypeOK
  <1> HIDE DEF h
  <1>5. CASE gpt
    <2>1. Tried = 2 /\ First = 1 /\ Tried' = 2 /\ First' = 1 /\ idx \in 0..2
      BY <1>2, <1>5 DEF Tried, First, TypeInv, TypeOK
    <2>2. writes = <<u>> /\ (Ok(First) => copies[idx] = copies[2])
      BY <1>2, <1>5, <2>1 DEF TrialForm, TrialCopies
    <2>3. h = u /\ Tail(writes) = <<>>
      BY <1>1, <2>2, OneWrite DEF h
    <2>4. copies'[2] = copies[2] /\ u' = u
      BY <1>1, <1>3, <2>3
    <2>5. TrialCopies' = <<u>>
      BY <1>2, <1>5, <2>4 DEF TrialCopies
    <2>6. Ok(Tried)' /\ Step' = 2
      BY <1>2, <2>1, <2>4 DEF TrialForm, Ok
    <2> HIDE DEF u
    <2>7. CASE copies'[1] = Torn /\ writes' = writes
      BY <1>2, <1>4, <2>1, <2>2, <2>5, <2>6, <2>7, <1>1, <2>3 DEF TrialForm, Ok, h
    <2>8. CASE copies'[1] = copies[2] /\ writes' = <<>>
      <3>1. Ok(First)'
        BY <1>2, <2>1, <2>8 DEF TrialForm, Ok
      <3> QED BY <2>1, <2>2, <2>6, <2>8, <3>1, <1>1, <2>3 DEF TrialForm, h
    <2> QED BY <1>1, <1>3, <2>3, <2>7, <2>8
  <1>6. CASE ~gpt
    <2>1. Tried = 1 /\ First = 0 /\ Tried' = 1 /\ First' = 0 /\ idx \in 0..2
      BY <1>2, <1>6 DEF Tried, First, TypeInv, TypeOK
    <2>2. \/ writes = <<v, w>> /\ (Ok(First) => copies[idx] = copies[1])
          \/ writes = <<w>> /\ Ok(First)
      BY <1>2, <1>6, <2>1 DEF TrialForm, TrialCopies
    <2> HIDE DEF v, w
    <2>3. \/ h = v /\ Tail(writes) = <<w>>
          \/ h = w /\ Tail(writes) = <<>>
      <3>1. writes = <<v, w>> => h = v /\ Tail(writes) = <<w>>
        BY <1>1, TwoWrites DEF h
      <3>2. writes = <<w>> => h = w /\ Tail(writes) = <<>>
        BY <1>1, OneWrite DEF h
      <3> QED BY <2>2, <3>1, <3>2
    <2>4. copies'[1] = copies[1] /\ v' = v /\ w' = w
      BY <1>1, <1>3, <2>3 DEF v, w
    <2>5. TrialCopies' = <<v, w>> /\ Write(copies[1], 2)' = w
      BY <1>2, <1>6, <2>4 DEF TrialCopies, v, w
    <2>6. Ok(Tried)' /\ Step' = 2 /\ ~gpt'
      BY <1>2, <1>6, <2>1, <2>4 DEF TrialForm, Ok
    <2>7. CASE writes = <<v, w>> /\ (Ok(First) => copies[idx] = copies[1])
      <3>1. h = v /\ Tail(writes) = <<w>>
        BY <1>1, <2>7, TwoWrites DEF h
      <3>2. CASE copies'[0] = Torn /\ writes' = writes
        BY <1>1, <1>2, <1>4, <2>1, <2>5, <2>6, <2>7, <3>1, <3>2 DEF TrialForm, Ok, h
      <3>3. CASE copies'[0] = copies[1] /\ writes' = <<w>>
        <4>1. Ok(First)'
          BY <1>2, <2>1, <3>3 DEF TrialForm, Ok
        <4> QED BY <1>1, <2>1, <2>5, <2>6, <2>7, <3>1, <3>3, <4>1 DEF TrialForm, h
      <3> QED BY <1>1, <1>3, <3>1, <3>2, <3>3
    <2>8. CASE writes = <<w>> /\ Ok(First)
      <3>1. h = w /\ Tail(writes) = <<>>
        BY <1>1, <2>8, OneWrite DEF h
      <3>2. copies'[0] = copies[0] /\ Ok(First)'
        BY <1>1, <1>2, <1>3, <2>1, <2>8, <3>1 DEF Ok
      <3>3. writes' = <<w>> \/ writes' = <<>>
        BY <1>3, <2>8, <3>1
      <3> QED BY <1>1, <2>1, <2>5, <2>6, <3>1, <3>2, <3>3 DEF TrialForm, h
    <2> QED BY <2>2, <2>7, <2>8
  <1> QED BY <1>5, <1>6

LEMMA TriesWriting ==
    ASSUME TypeInv, General, Tries, write_bootloader
    PROVE  Tries'
  <1> USE DEF Writing, Early, Booting, Update
  <1> DEFINE w == Head(writes)
  <1>1. /\ writes # <<>> /\ w.dst \in 0..2
        /\ \E j \in DOMAIN writes : writes[j] = w
        /\ \A c \in 0..2 : c # w.dst => copies'[c] = copies[c]
        /\ \A i \in DOMAIN writes' : \E j \in DOMAIN writes : writes'[i] = writes[j]
        /\ UNCHANGED <<gpt, accepted, bootloader_up, env, pc, idx, next, mode>>
    BY WriteStep DEF device, partitions
  <1>2. First' = First /\ Step' = Step /\ Status' = Status /\ Tried' = Tried
        /\ First \in {0, 1} /\ (gpt => First = 1) /\ (~gpt => First = 0)
    BY <1>1 DEF First, Step, Status, Tried
  <1>3. pc \in Writing
    BY <1>1 DEF General
  <1>4. w.dst # First => Ok(First)' = Ok(First)
    BY <1>1, <1>2 DEF Ok
  <1> HIDE DEF w
  <1>5. Lists /\ BadFirst /\ Runs /\ TrialEnds
    BY DEF Tries
  <1>6. Runs' /\ TrialEnds'
    BY <1>1, <1>2, <1>3, <1>5 DEF Runs, TrialEnds, General
  <1>7. SUFFICES Lists' /\ BadFirst'
    BY <1>6 DEF Tries
  <1>8. CASE pc = "write_boot"
    <2>1. WriteForm' /\ w.dst \in {1, 2} /\ env.write_boot
      BY <1>5, <1>8, WriteFormKept DEF Lists, w
    <2>2. Lists'
      BY <1>1, <1>8, <2>1 DEF Lists
    <2>3. ~gpt => Ok(First)' = Ok(First)
      BY <1>2, <1>4, <2>1
    <2>4. BadFirst'
      BY <1>1, <1>2, <1>5, <1>8, <2>1, <2>3 DEF BadFirst
    <2> QED BY <2>2, <2>4
  <1>9. CASE pc = "flash"
    <2>1. ~gpt => WriteForm' /\ w.dst \in {1, 2}
      BY <1>5, <1>9, WriteFormKept DEF Lists, w
    <2>2. w.dst # First /\ idx = First
      BY <1>1, <1>2, <1>5, <1>9, <2>1 DEF Lists
    <2>3. Lists'
      BY <1>1, <1>2, <1>5, <1>9, <2>1, <2>2 DEF Lists
    <2>4. Ok(First)
      BY <1>5, <1>9 DEF BadFirst, General
    <2>5. BadFirst'
      BY <1>1, <1>2, <1>4, <1>5, <1>9, <2>2, <2>4 DEF BadFirst
    <2> QED BY <2>3, <2>5
  <1>10. CASE pc = "check_fastboot_step"
    <2>1. TrialForm' /\ w.dst # Tried
      BY <1>5, <1>10, TrialFormKept DEF Lists, w
    <2>2. ~gpt => Ok(1)'
      BY <2>1, <1>1, <1>2 DEF TrialForm, Ok, Tried
    <2>3. Step = 2 /\ Status = "init" /\ ~env.write_boot
      BY <1>5, <1>10 DEF TrialForm, Lists, BadFirst
    <2>4. Lists'
      BY <1>1, <1>10, <2>1 DEF Lists
    <2>5. BadFirst'
      BY <1>1, <1>2, <1>10, <2>2, <2>3 DEF BadFirst
    <2> QED BY <2>4, <2>5
  <1>11. CASE pc = "robust_update"
    <2>1. w.dst > First /\ (gpt \/ Ok(First) \/ w.dst # 1)
      BY <1>1, <1>5, <1>11 DEF Lists
    <2>2. Ok(First)' = Ok(First)
      BY <1>1, <1>2, <1>4, <2>1
    <2>3. w.dst # 1 => Ok(1)' = Ok(1)
      BY <1>1 DEF Ok
    <2>4. Lists'
      BY <1>1, <1>2, <1>5, <1>11, <2>2 DEF Lists
    <2>5. BadFirst'
      BY <1>1, <1>2, <1>5, <1>11, <2>1, <2>2, <2>3 DEF BadFirst
    <2> QED BY <2>4, <2>5
  <1> QED BY <1>3, <1>8, <1>9, <1>10, <1>11

LEMMA TriesWrites ==
    ASSUME TypeInv, General, Tries, ~FlashOnTrial,
           StartWriteBoot \/ flash \/ FastbootReboot \/ StartRobustUpdate
    PROVE  Tries'
  <1> USE DEF Writing, Early, Booting, Update
  <1>1. /\ UNCHANGED <<gpt, accepted, copies, env, idx>> /\ writes = <<>>
        /\ Step' = Step /\ Status' = Status
    <2>1. UNCHANGED <<gpt, accepted, copies, env, idx>>
      BY DEF StartWriteBoot, flash, FastbootReboot, StartRobustUpdate, device
    <2>2. writes = <<>>
      BY DEF StartWriteBoot, flash, FastbootReboot, StartRobustUpdate, Written, General
    <2> QED BY <2>1, <2>2 DEF Step, Status
  <1>2. /\ First' = First /\ Tried' = Tried /\ Twins' = Twins /\ TrialCopies' = TrialCopies
        /\ Ok(First)' = Ok(First) /\ Ok(1)' = Ok(1) /\ Ok(Tried)' = Ok(Tried) /\ Ok(idx)' = Ok(idx)
        /\ (gpt => First = 1) /\ (~gpt => First = 0) /\ idx \in 0..2
    BY <1>1, OkStill DEF First, TypeInv, TypeOK
  <1>3. /\ gen < MaxGen => gen + 1 \in Images
        /\ bootloader_up \in Images
    BY NextBuild DEF TypeInv, TypeOK
  <1> USE DEF Tries, Lists, BadFirst, Runs, TrialEnds
  <1>4. CASE StartWriteBoot
    <2>1. /\ pc = "non_ab_update" /\ pc' = "write_boot" /\ env.write_boot /\ WriteForm'
          /\ UNCHANGED <<bootloader_up, next, mode>>
      BY <1>4 DEF StartWriteBoot, WriteBootWrites, WriteForm, partitions, Write
    <2> QED BY <1>1, <1>2, <2>1
  <1>5. CASE flash
    <2>1. /\ pc = "fastboot" /\ pc' = "flash" /\ gen + 1 \in Images /\ Step # 2
          /\ bootloader_up' = gen + 1 /\ writes' = FlashWrites(gen + 1)
          /\ UNCHANGED <<next, mode>>
      BY <1>3, <1>5 DEF flash, Step
    <2>2. idx = First
      BY <2>1
    <2>3. ~gpt => writes' = <<Write(gen + 1, 1), Write(gen + 1, 2)>>
      BY <2>1, <2>2, FlashWritesOk DEF TypeInv
    <2>4. ~gpt => WriteForm'
      BY <2>1, <2>3 DEF WriteForm, Write
    <2>5. gpt => \A i \in DOMAIN writes' : writes'[i].dst = 2
      <3> DEFINE x == Write(gen + 1, 2)
      <3>1. x \in [img : Images, dst : 0..2] /\ x.dst = 2
        BY <2>1, WriteType
      <3>2. gpt => writes' = <<x>> \o <<>>
        BY <2>1, <2>2 DEF FlashWrites
      <3> HIDE DEF x
      <3>3. <<x>> \o <<>> = <<x>> /\ DOMAIN <<x>> = {1} /\ <<x>>[1] = x
        BY <3>1, OneWrite, ConcatEmptySeq DEF Writes
      <3> QED BY <3>1, <3>2, <3>3
    <2> QED BY <1>1, <1>2, <2>1, <2>2, <2>4, <2>5
  <1>6. CASE FastbootReboot
    <2>1. pc = "fastboot" /\ bootloader_up' = bootloader_up /\ ~next
      BY <1>6 DEF FastbootReboot, partitions, General
    <2>2. CASE Step = 2
      <3>1. writes' = TrialCopies /\ pc' = "check_fastboot_step" /\ next' = next
        BY <1>6, <2>2 DEF FastbootReboot, Step
      <3>2. idx # First /\ Ok(idx) /\ mode = "fastboot" /\ ~env.write_boot /\ Status = "init"
        BY <2>1, <2>2 DEF General
      <3>3. Ok(Tried) /\ (Ok(First) => copies[idx] = copies[Tried])
        <4>1. CASE gpt
          <5>1. idx = 2 /\ Tried = 2
            BY <1>2, <4>1, <3>2 DEF Tried, TypeInv, Copies
          <5> QED BY <3>2, <5>1
        <4>2. CASE ~gpt
          <5>1. idx \in {1, 2} /\ Tried = 1
            BY <1>2, <4>2, <3>2 DEF Tried
          <5>2. CASE idx = 1
            BY <3>2, <5>1, <5>2
          <5>3. CASE idx = 2
            <6>1. Ok(First) => copies[1] = copies[2]
              BY <2>1, <2>2, <3>2, <4>2 DEF Twins
            <6>2. ~Ok(First) => Ok(1)
              BY <2>1, <4>2
            <6> QED BY <3>2, <5>1, <5>3, <6>1, <6>2 DEF Ok
          <5> QED BY <5>1, <5>2, <5>3
        <4> QED BY <4>1, <4>2
      <3>4. TrialForm'
        BY <1>1, <1>2, <2>2, <3>1, <3>3, OkStill DEF TrialForm
      <3> QED BY <1>1, <1>2, <2>1, <2>2, <3>1, <3>2, <3>4
    <2>3. CASE Step # 2
      <3>1. writes' = writes /\ pc' = "rom" /\ next' = FALSE
        BY <1>6, <2>3 DEF FastbootReboot, Step, Reboot
      <3> QED BY <1>1, <1>2, <2>1, <2>3, <3>1
    <2> QED BY <2>2, <2>3
  <1>7. CASE StartRobustUpdate
    <2>1. pc = "recovery" /\ pc' = "robust_update" /\ UNCHANGED <<bootloader_up, next, mode>>
          /\ gen + 1 \in Images
      BY <1>3, <1>7 DEF StartRobustUpdate, partitions
    <2>2. PICK c \in Usable \ {2} : /\ \A d \in Usable : c <= d
                                    /\ writes' = <<Write(gen + 1, c + 1)>>
      BY <1>7 DEF StartRobustUpdate
    <2>3. c \in Copies /\ c + 1 \in 0..2 /\ c + 1 > First
      BY <2>2 DEF Usable, Copies, First
    <2>4. DOMAIN writes' = {1} /\ writes'[1].dst = c + 1
      BY <2>1, <2>2, <2>3, WriteType, OneWrite
    <2>5. gpt => Ok(First)
      BY <1>2, <2>2, <2>3 DEF Usable, Copies, Ok
    <2>6. gpt \/ Ok(First) \/ c + 1 # 1
      <3>1. Ok(c) /\ c \in 0..2
        BY <2>2, <2>3 DEF Usable, Ok, Copies, First
      <3>2. ~gpt /\ c + 1 = 1 => c = First
        BY <1>2, <3>1
      <3> QED BY <3>1, <3>2
    <2>7. Lists'
      BY <1>2, <2>1, <2>3, <2>4, <2>6
    <2>8. BadFirst' /\ Runs' /\ TrialEnds'
      BY <1>1, <1>2, <2>1, <2>5 DEF General
    <2> QED BY <2>7, <2>8
  <1> QED BY <1>4, <1>5, <1>6, <1>7

\* The first power cut leaves the trial, or the request, that writes the first copy again.
LEMMA TriesCut ==
    ASSUME TypeInv, General, FirstKept, Tries, PowerCut
    PROVE  Tries'
  <1> USE DEF Writing
  <1>1. /\ writes' = <<>> /\ pc' = "rom" /\ mode' = "cold_boot" /\ next' = FALSE
        /\ UNCHANGED <<gpt, accepted, copies, bootloader_up, idx>>
    BY DEF PowerCut, Reboot, device, partitions
  <1>2. /\ First' = First /\ Ok(First)' = Ok(First) /\ Ok(1)' = Ok(1)
    BY <1>1, OkStill
  <1>3. env' = env \/ (Ok(First) /\ Asks(FALSE, 0, "init"))
    <2>1. \/ env' = env
          \/ /\ env' = DefaultEnv
             /\ pc \in Saving \cup (IF Written THEN SavingWhenWritten ELSE {})
      BY DEF PowerCut
    <2>2. env' = DefaultEnv => Asks(FALSE, 0, "init")
      BY DefaultRequests DEF Asks, Step, Status, Requests
    <2>3. pc \in Saving \cup (IF Written THEN SavingWhenWritten ELSE {}) => writes = <<>>
      BY DEF Saving, SavingWhenWritten, Written, General
    <2>4. writes = <<>> => Ok(First)
      BY DEF FirstKept, InProgress, Ok
    <2> QED BY <2>1, <2>2, <2>3, <2>4
  <1>4. env' = env => Asks(env.write_boot, Step, Status)
    BY DEF Asks, Step, Status
  <1>5. pc = "write_boot" /\ ~gpt => Ok(First)
    <2> SUFFICES ASSUME pc = "write_boot", ~gpt PROVE Ok(First)
      OBVIOUS
    <2>1. ~InProgress(First)
      <3> DEFINE v == Write(bootloader_up, 1)
                 w == Write(bootloader_up, 2)
      <3>1. /\ v \in [img : Images, dst : 0..2] /\ v.dst = 1
            /\ w \in [img : Images, dst : 0..2] /\ w.dst = 2
        BY WriteType DEF TypeInv, TypeOK
      <3>2. writes = <<v, w>> \/ writes = <<w>> \/ writes = <<>>
        BY DEF Tries, Lists, WriteForm
      <3> HIDE DEF v, w
      <3> QED BY <3>1, <3>2, OneWrite, TwoWrites DEF InProgress, First
    <2> QED BY <2>1 DEF FirstKept, Ok
  <1>6. Step \in 0..2
    BY DEF Step, TypeInv, TypeOK, Env
  <1> USE DEF Tries, Lists, BadFirst, Runs, TrialEnds
  <1>7. CASE env' = env
    <2>1. env'.write_boot = env.write_boot /\ Step' = Step /\ Status' = Status
      BY <1>4, <1>7 DEF Asks
    <2>2. Step = 0 \/ (~env.write_boot /\ Status = "init")
      BY DEF FirstKept
    <2>3. BadFirst'
      BY <1>1, <1>2, <1>5, <2>1, <2>2
    <2>4. Lists' /\ Runs' /\ TrialEnds'
      BY <1>1, <2>1 DEF Booting, Update
    <2> QED BY <2>3, <2>4
  <1>8. CASE Ok(First) /\ Asks(FALSE, 0, "init")
    BY <1>1, <1>2, <1>8 DEF Asks, Booting, Update
  <1> QED BY <1>3, <1>7, <1>8

TriesInv == IInv /\ (cuts <= 1 => Tries)

LEMMA TriesKept == ~FlashOnTrial /\ TriesInv /\ [Next]_vars => TriesInv'
  <1> SUFFICES ASSUME ~FlashOnTrial, TriesInv, [Next]_vars PROVE TriesInv'
    OBVIOUS
  <1> USE DEF TriesInv
  <1>1. IInv' /\ TypeInv /\ General /\ cuts \in Nat /\ (cuts = 0 => FirstKept)
    BY IInvKept DEF IInv, TypeInv, TypeOK
  <1>2. CASE Boot
    <2>1. cuts' = cuts
      BY <1>1, <1>2, BootSteps DEF Still
    <2> QED BY <1>1, <1>2, <2>1, TriesBoot
  <1>3. CASE Request
    <2>1. cuts' = cuts
      BY <1>1, <1>3, RequestSteps
    <2> QED BY <1>1, <1>3, <2>1, TriesRequest
  <1>4. CASE write_bootloader
    <2>1. cuts' = cuts
      BY <1>4 DEF write_bootloader
    <2> QED BY <1>1, <1>4, <2>1, TriesWriting
  <1>5. CASE StartWriteBoot \/ flash \/ FastbootReboot \/ StartRobustUpdate
    <2>1. cuts' = cuts
      BY <1>5 DEF StartWriteBoot, flash, FastbootReboot, StartRobustUpdate
    <2> QED BY <1>1, <1>5, <2>1, TriesWrites
  <1>6. CASE PowerCut
    <2>1. cuts' = cuts + 1
      BY <1>6 DEF PowerCut
    <2>2. cuts' <= 1 => cuts = 0
      BY <1>1, <2>1
    <2> QED BY <1>1, <1>6, <2>2, TriesCut
  <1>7. CASE UNCHANGED vars
    BY <1>1, <1>7
       DEF Tries, Lists, BadFirst, Runs, TrialEnds, WriteForm, TrialForm, TrialCopies, Tried, Twins,
           Ok, Step, Status, First, Write, vars, device, partitions
  <1> QED BY <1>2, <1>3, <1>4, <1>5, <1>6, <1>7
          DEF Next, UBoot, Outside, Boot, Request, non_ab_update

\* Who writes over a first copy that works, up to the second power cut.
LEMMA TornFirst ==
    ASSUME TriesInv, [Next]_vars, cuts <= 1, Ok(First), copies'[First] = Torn
    PROVE  /\ pc # "flash"
           /\ \/ pc = "write_boot"
              \/ /\ pc = "check_fastboot_step" /\ idx # First
                 /\ Head(writes).img = copies[idx]
  <1> USE DEF TriesInv, Tries, Lists
  <1>1. TypeInv /\ General /\ First \in {0, 1} /\ (gpt => First = 1) /\ (~gpt => First = 0)
    BY DEF IInv, First
  <1>2. Torn \notin accepted
    BY <1>1, Constants DEF TypeInv, TypeOK
  <1>3. write_bootloader
    <2>1. copies' # copies
      BY <1>2 DEF Ok
    <2>2. Boot => copies' = copies
      BY <1>1, BootSteps DEF Still
    <2>3. Request => copies' = copies
      BY <1>1, RequestSteps
    <2>4. StartWriteBoot \/ flash \/ FastbootReboot \/ StartRobustUpdate \/ PowerCut
            => copies' = copies
      BY DEF StartWriteBoot, flash, FastbootReboot, StartRobustUpdate, PowerCut
    <2>5. UNCHANGED vars => copies' = copies
      BY DEF vars
    <2> QED BY <2>1, <2>2, <2>3, <2>4, <2>5
            DEF Next, UBoot, Outside, Boot, Request, non_ab_update
  <1>4. Head(writes).dst = First /\ \E j \in DOMAIN writes : writes[j] = Head(writes)
    <2>1. First \in 0..2
      BY <1>1
    <2>2. First # Head(writes).dst => copies'[First] = copies[First]
      BY <1>1, <1>3, <2>1, WriteStep
    <2>3. \E j \in DOMAIN writes : writes[j] = Head(writes)
      BY <1>1, <1>3, WriteStep
    <2> QED BY <1>2, <2>2, <2>3 DEF Ok
  <1>5. pc \in Writing
    BY <1>1, <1>3 DEF General, write_bootloader
  <1>6. pc # "flash" /\ pc # "robust_update"
    <2>1. pc = "flash" /\ ~gpt => Head(writes).dst \in {1, 2}
      BY <1>1, <1>3, WriteFormKept
    <2> QED BY <1>1, <1>4, <2>1
  <1>7. pc = "check_fastboot_step" => idx # First /\ Head(writes).img = copies[idx]
    <2> SUFFICES ASSUME pc = "check_fastboot_step"
                 PROVE  idx # First /\ Head(writes).img = copies[idx]
      OBVIOUS
    <2>1. TrialForm
      OBVIOUS
    <2>2. idx # First
      BY <1>1, <2>1 DEF TrialForm, General, Early
    <2> QED BY <1>1, <1>3, <1>4, <2>1, <2>2, TrialFormKept
  <1> QED BY <1>5, <1>6, <1>7 DEF Writing

LEMMA InitTries == Init => TriesInv
  <1> SUFFICES ASSUME Init PROVE TriesInv
    OBVIOUS
  <1>1. Step = 0 /\ Status = "init" /\ ~env.write_boot /\ writes = <<>> /\ idx = First
        /\ pc = "rom" /\ ~next
    BY DEF Init, DefaultEnv, Step, Status
  <1>2. Ok(First)
    BY DEF Init, First, Ok
  <1> QED BY <1>1, <1>2, InitIInv
          DEF TriesInv, Tries, Lists, BadFirst, Runs, TrialEnds, Booting, Update

\* Up to the second power cut a first copy that works is replaced only by write_boot, or at
\* the end of a trial by the bootloader that was tried, whatever is flashed and how often,
\* as long as the host does not flash while a trial runs.
THEOREM NonAbTriedFirst == ~FlashOnTrial => (Spec => TriedFirst)
  <1> SUFFICES ASSUME ~FlashOnTrial PROVE Spec => TriedFirst
    OBVIOUS
  <1>1. TriesInv /\ [Next]_vars => TriesInv'
    BY TriesKept
  <1>2. TriesInv /\ [Next]_vars
        => [(copies[First] \in accepted /\ copies'[First] = Torn /\ cuts <= 1)
            => \/ pc = "write_boot"
               \/ /\ pc = "check_fastboot_step" /\ idx # First
                  /\ Head(writes).img = copies[idx]]_vars
    BY TornFirst DEF Ok
  <1> QED BY <1>1, <1>2, InitTries, PTL DEF Spec, TriedFirst

\* Under the same conditions the comment of fb_command.c is true: what fastboot flashes
\* never goes over a first copy that works.
THEOREM NonAbFlashSparesFirst ==
    ~FlashOnTrial =>
      (Spec => [][(pc = "flash" /\ copies'[First] = Torn /\ cuts <= 1)
                  => copies[First] \notin accepted]_vars)
  <1> SUFFICES ASSUME ~FlashOnTrial
               PROVE  Spec => [][(pc = "flash" /\ copies'[First] = Torn /\ cuts <= 1)
                                 => copies[First] \notin accepted]_vars
    OBVIOUS
  <1>1. TriesInv /\ [Next]_vars => TriesInv'
    BY TriesKept
  <1>2. TriesInv /\ [Next]_vars
        => [(pc = "flash" /\ copies'[First] = Torn /\ cuts <= 1)
            => copies[First] \notin accepted]_vars
    BY TornFirst DEF Ok
  <1> QED BY <1>1, <1>2, InitTries, PTL DEF Spec

-----------------------------------------------------------------------------
(* What recovery shows about the bootloader it had written.                 *)

\* Images are numbered in the order in which they are built.
Built ==
    /\ \A c \in 0..2 : copies[c] <= gen
    /\ \A i \in DOMAIN writes : writes[i].img <= gen
    /\ bootloader_up <= gen

\* Recovery writes the copy after the first one, and no other has that image.
Robust ==
    pc = "robust_update" => /\ \A i \in DOMAIN writes : writes[i].dst = First + 1
                            /\ \A c \in 0..2 : copies[c] = gen => c = First + 1

\* Nothing but the boot runs between the request of a check and its end; the second
\* boot starts the copy to be checked exactly if the ROM accepts it.
CheckRuns ==
    /\ Status \in {"next", "finish"} =>
         /\ ~env.write_boot /\ env.expect_index = First + 1
         /\ pc \in {"rom", "aml_update_env", "fastboot_step_check", "non_ab_update", "check"}
         /\ pc \notin {"rom", "aml_update_env"} => ~Asked /\ env.check_result = "succ"
    /\ Status = "next" => /\ ~next
                          /\ pc \in {"rom", "aml_update_env"} => env.upgrade_step = 1
                          /\ pc # "rom" => idx = First
    /\ Status = "finish" => /\ mode = "normal" /\ ~Asked /\ env.check_result = "succ"
                            /\ pc = "rom" => next /\ idx = First
                            /\ pc # "rom" => (idx = First + 1 <=> Ok(First + 1))
    /\ pc = "check_failed" => ~Ok(env.expect_index)

Tells == Built /\ Robust /\ CheckRuns

\* From the copy after the first one the ROM goes round the circle.
LEMMA NextStarts ==
    ASSUME TypeInv, BootRom, next, idx = First
    PROVE  idx' = First + 1 <=> Ok(First + 1)
  <1>1. PICK c \in Usable : c = idx' /\ \A d \in Usable : Distance(c) <= Distance(d)
    BY DEF BootRom
  <1>2. First \in {0, 1} /\ Usable \subseteq Copies /\ c \in Copies /\ First + 1 \in Copies
    BY DEF First, Usable, Copies
  <1>3. \A d \in Copies : Distance(d) = (d - (First + 1)) % (3 - First)
    BY DEF Distance
  <1>4. \A d \in Copies : Distance(d) \in Nat /\ (Distance(d) = 0 <=> d = First + 1)
    <2>1. CASE First = 0
      <3>1. Copies = 0..2 /\ \A d \in Copies : Distance(d) = (d - 1) % 3
        BY <1>3, <2>1 DEF Copies
      <3>2. \A d \in 0..2 : (d - 1) % 3 = IF d = 0 THEN 2 ELSE d - 1
        OBVIOUS
      <3> QED BY <2>1, <3>1, <3>2
    <2>2. CASE First = 1
      <3>1. Copies = 1..2 /\ \A d \in Copies : Distance(d) = (d - 2) % 2
        BY <1>3, <2>2 DEF Copies
      <3>2. \A d \in 1..2 : (d - 2) % 2 = IF d = 1 THEN 1 ELSE 0
        OBVIOUS
      <3> QED BY <2>2, <3>1, <3>2
    <2> QED BY <1>2, <2>1, <2>2
  <1>5. Ok(First + 1) => c = First + 1
    <2> SUFFICES ASSUME Ok(First + 1) PROVE c = First + 1
      OBVIOUS
    <2>1. First + 1 \in Usable
      BY <1>2 DEF Usable, Ok
    <2>2. Distance(c) <= Distance(First + 1)
      BY <1>1, <2>1
    <2> QED BY <1>2, <1>4, <2>2
  <1>6. c = First + 1 => Ok(First + 1)
    BY DEF Usable, Ok
  <1> QED BY <1>1, <1>5, <1>6

\* What the boot leaves of a check.
ChecksStill == /\ AsksStill /\ Status' = Status
               /\ env'.expect_index = env.expect_index
               /\ env'.check_result = env.check_result
               /\ env'.upgrade_step = env.upgrade_step

LEMMA ChecksEnv ==
    ASSUME env \in Env
    PROVE  /\ \/ BootRom \/ BootRomFails \/ NoFastbootStep \/ SkipRecovery \/ StartRecoveryUpdate
              \/ FinishRecoveryUpdate \/ switch_bootmode
              => ChecksStill
           /\ aml_update_env =>
                /\ Status' = Status /\ env'.expect_index = env.expect_index
                /\ env'.write_boot => env.write_boot
                /\ \/ ~env.write_boot /\ env.upgrade_step = 1
                   \/ ~Asked /\ env.check_result = "succ"
                   => ~Asked' /\ env'.check_result = "succ"
           /\ StartCheck =>
                /\ Status = "next" /\ Status' = "finish" /\ AsksStill
                /\ env'.expect_index = env.expect_index
                /\ env'.check_result = env.check_result
           /\ FinishCheck =>
                /\ Status = "finish" /\ Status' = "end" /\ AsksStill
                /\ env'.expect_index = env.expect_index
                /\ env'.check_result = env.check_result
           /\ CheckFails =>
                /\ Status' = Status /\ env'.expect_index = env.expect_index
                /\ env'.check_result = "bootloader_fail"
           /\ FinishRobustUpdate =>
                \E c \in 1..2 : /\ copies[c] = gen
                                /\ Status' = "next" /\ env'.expect_index = c
                                /\ env'.upgrade_step = 1 /\ env'.write_boot = env.write_boot
  <1> USE DEF Asked, Status, Step, Resetting, Env
  <1>1. \/ BootRom \/ BootRomFails \/ NoFastbootStep \/ SkipRecovery \/ StartRecoveryUpdate
        \/ FinishRecoveryUpdate \/ switch_bootmode
        => ChecksStill
    BY DEF ChecksStill, AsksStill, BootRom, BootRomFails, NoFastbootStep, SkipRecovery,
           StartRecoveryUpdate, FinishRecoveryUpdate, switch_bootmode, Requested
  <1>2. aml_update_env =>
          /\ Status' = Status /\ env'.expect_index = env.expect_index
          /\ env'.write_boot => env.write_boot
          /\ \/ ~env.write_boot /\ env.upgrade_step = 1
             \/ ~Asked /\ env.check_result = "succ"
             => ~Asked' /\ env'.check_result = "succ"
    <2>1. /\ Reserved(env).recovery_need_update = FALSE
          /\ Reserved(env).check_result = "succ"
          /\ Reserved(env).reboot_status = env.reboot_status
          /\ Reserved(env).expect_index = env.expect_index
          /\ Reserved(env).write_boot = FALSE
      <3>1. /\ DefaultEnv \in Env /\ DefaultEnv.recovery_need_update = FALSE
            /\ DefaultEnv.check_result = "succ" /\ DefaultEnv.write_boot = FALSE
        BY DEF DefaultEnv
      <3> QED BY <3>1 DEF Reserved
    <2> QED BY <2>1 DEF aml_update_env
  <1>3. StartCheck =>
          /\ Status = "next" /\ Status' = "finish" /\ AsksStill
          /\ env'.expect_index = env.expect_index
          /\ env'.check_result = env.check_result
    BY DEF StartCheck, AsksStill
  <1>4. FinishCheck =>
          /\ Status = "finish" /\ Status' = "end" /\ AsksStill
          /\ env'.expect_index = env.expect_index
          /\ env'.check_result = env.check_result
    BY DEF FinishCheck, AsksStill
  <1>5. CheckFails =>
          /\ Status' = Status /\ env'.expect_index = env.expect_index
          /\ env'.check_result = "bootloader_fail"
    BY DEF CheckFails
  <1>6. FinishRobustUpdate =>
          \E c \in 1..2 : /\ copies[c] = gen
                          /\ Status' = "next" /\ env'.expect_index = c
                          /\ env'.upgrade_step = 1 /\ env'.write_boot = env.write_boot
    <2> SUFFICES ASSUME FinishRobustUpdate
                 PROVE  \E c \in 1..2 : /\ copies[c] = gen
                                        /\ Status' = "next" /\ env'.expect_index = c
                                        /\ env'.upgrade_step = 1
                                        /\ env'.write_boot = env.write_boot
      OBVIOUS
    <2>1. PICK c \in 1..2 :
            /\ copies[c] = gen
            /\ env' = [env EXCEPT !.reboot_status = "next", !.expect_index = c,
                                  !.upgrade_step = 1]
      BY DEF FinishRobustUpdate
    <2>2. /\ Status' = "next" /\ env'.expect_index = c
          /\ env'.upgrade_step = 1 /\ env'.write_boot = env.write_boot
      BY <2>1
    <2> QED BY <2>1, <2>2
  <1> QED BY <1>1, <1>2, <1>3, <1>4, <1>5, <1>6

LEMMA TellsBoot ==
    ASSUME TypeInv, General, FirstKept, Tells, Boot
    PROVE  Tells'
  <1>1. Still /\ env \in Env
    BY BootSteps DEF TypeInv, TypeOK
  <1>2. /\ First' = First /\ First \in {0, 1} /\ Ok(First + 1)' = Ok(First + 1)
        /\ \A c \in 0..2 : Ok(c)' = Ok(c)
    BY <1>1 DEF Still, Ok, First
  <1>3. gen' = gen /\ env.expect_index \in 0..2
    BY <1>1 DEF Boot, fastboot_step_check, recovery_update, BootRom, BootRomFails, aml_update_env,
           StartTrial, TrialFailed, NoFastbootStep, SkipRecovery, StartRecoveryUpdate,
           FinishRecoveryUpdate, ClearRecoveryNeedUpdate, NoSecureCheck, StartCheck,
           FinishCheck, CheckFails, switch_bootmode, Env
  <1>4. Built' /\ Robust'
    <2>1. Built'
      BY <1>1, <1>3 DEF Tells, Built, Still
    <2>2. pc' # "robust_update"
      BY DEF Boot, fastboot_step_check, recovery_update, BootRom, BootRomFails, aml_update_env,
             StartTrial, TrialFailed, NoFastbootStep, SkipRecovery, StartRecoveryUpdate,
             FinishRecoveryUpdate, ClearRecoveryNeedUpdate, NoSecureCheck, StartCheck,
             FinishCheck, CheckFails, switch_bootmode, Reboot
    <2> QED BY <2>1, <2>2 DEF Robust
  <1>5. SUFFICES CheckRuns'
    BY <1>4 DEF Tells
  <1>6. CheckRuns
    BY DEF Tells
  <1>7. CASE BootRom
    <2>1. ChecksStill /\ pc = "rom" /\ pc' = "aml_update_env" /\ mode' = mode /\ ~next'
      BY <1>1, <1>7, ChecksEnv DEF BootRom
    <2>2. Ok(First)
      BY <2>1 DEF FirstKept, InProgress, Ok, General, Writing
    <2>3. First \in Usable
      BY <1>2, <2>2 DEF Usable, Copies, Ok
    <2>4. ~next => idx' = First
      BY <1>7, <2>3, FirstStarts
    <2>5. next /\ idx = First => (idx' = First + 1 <=> Ok(First + 1))
      BY <1>7, NextStarts
    <2> QED BY <1>2, <1>6, <2>1, <2>4, <2>5 DEF CheckRuns, ChecksStill, AsksStill
  <1>8. CASE BootRomFails
    <2>1. ChecksStill /\ pc = "rom" /\ Usable = {}
      BY <1>1, <1>8, ChecksEnv DEF BootRomFails
    <2>2. Ok(First)
      BY <2>1 DEF FirstKept, InProgress, Ok, General, Writing
    <2> QED BY <1>2, <2>1, <2>2 DEF Usable, Copies, Ok
  <1>9. CASE aml_update_env
    <2>1. /\ pc = "aml_update_env" /\ pc' = "fastboot_step_check" /\ UNCHANGED <<idx, next, mode>>
      BY <1>9 DEF aml_update_env
    <2>2. /\ Status' = Status /\ env'.expect_index = env.expect_index
          /\ env'.write_boot => env.write_boot
          /\ \/ ~env.write_boot /\ env.upgrade_step = 1
             \/ ~Asked /\ env.check_result = "succ"
             => ~Asked' /\ env'.check_result = "succ"
      BY <1>1, <1>9, ChecksEnv
    <2>3. Status \in {"next", "finish"}
            => ~env.write_boot /\ ~Asked' /\ env'.check_result = "succ" /\ ~env'.write_boot
      BY <1>6, <2>1, <2>2 DEF CheckRuns
    <2>4. Status' = Status /\ env'.expect_index = env.expect_index
      BY <2>2
    <2>5. Status \in {"next", "finish"} => (idx' = First' + 1 <=> idx = First + 1)
      BY <1>2, <2>1
    <2> QED BY <1>2, <1>6, <2>1, <2>3, <2>4, <2>5 DEF CheckRuns
  <1>10. CASE StartTrial \/ TrialFailed
    <2>1. Step # 0 /\ pc' \in {"rom", "cli"}
      BY <1>10 DEF StartTrial, TrialFailed, Step, Reboot
    <2>2. Asks(env.write_boot, 2, Status) \/ Asks(env.write_boot, 0, Status)
      BY <1>10, BootSteps
    <2>3. Status' = "init"
      BY <2>1, <2>2 DEF FirstKept, Asks
    <2> QED BY <2>1, <2>3 DEF CheckRuns
  <1>11. CASE NoFastbootStep
    <2>1. ChecksStill /\ pc = "fastboot_step_check" /\ pc' = "non_ab_update"
          /\ UNCHANGED <<idx, next, mode>>
      BY <1>1, <1>11, ChecksEnv DEF NoFastbootStep
    <2> QED BY <1>2, <1>6, <2>1 DEF CheckRuns, ChecksStill, AsksStill
  <1>12. CASE SkipRecovery
    <2>1. ChecksStill /\ pc = "non_ab_update" /\ pc' = "check" /\ UNCHANGED <<idx, next, mode>>
      BY <1>1, <1>12, ChecksEnv DEF SkipRecovery
    <2> QED BY <1>2, <1>6, <2>1 DEF CheckRuns, ChecksStill, AsksStill
  <1>13. CASE StartRecoveryUpdate \/ FinishRecoveryUpdate \/ ClearRecoveryNeedUpdate
    <2>1. /\ pc \in {"non_ab_update", "recovery_update", "recovery_saved"}
          /\ pc = "non_ab_update" => Asked
          /\ pc' \in {"recovery_update", "recovery_saved", "check"}
      BY <1>13 DEF StartRecoveryUpdate, FinishRecoveryUpdate, ClearRecoveryNeedUpdate, Asked
    <2>2. Status \notin {"next", "finish"}
      BY <1>6, <2>1 DEF CheckRuns
    <2>3. Status' = Status
      BY <1>13, BootSteps DEF recovery_update, Asks
    <2> QED BY <2>1, <2>2, <2>3 DEF CheckRuns
  <1>14. CASE NoSecureCheck
    <2>1. Status' = "init" /\ pc' = "switch_bootmode"
      BY <1>14, BootSteps DEF NoSecureCheck, Asks
    <2> QED BY <2>1 DEF CheckRuns
  <1>15. CASE StartCheck
    <2>1. /\ Status = "next" /\ Status' = "finish" /\ AsksStill
          /\ env'.expect_index = env.expect_index /\ env'.check_result = env.check_result
      BY <1>1, <1>15, ChecksEnv
    <2>2. /\ pc = "check" /\ pc' = "rom" /\ mode' = "normal" /\ next' = TRUE /\ idx' = idx
      BY <1>15 DEF StartCheck, Reboot
    <2> QED BY <1>2, <1>6, <2>1, <2>2 DEF CheckRuns, AsksStill
  <1>16. CASE FinishCheck
    <2>1. /\ Status = "finish" /\ Status' = "end" /\ env'.expect_index = env.expect_index
      BY <1>1, <1>16, ChecksEnv
    <2>2. pc = "check" /\ pc' = IF Matches THEN "recovery" ELSE "check_failed"
      BY <1>16 DEF FinishCheck
    <2>3. Matches <=> Ok(env.expect_index)
      BY <1>2, <1>6, <2>1, <2>2 DEF CheckRuns, Matches
    <2>4. Ok(env.expect_index)' = Ok(env.expect_index)
      BY <1>1, <1>3, <2>1 DEF Ok, Still
    <2> QED BY <2>1, <2>2, <2>3, <2>4 DEF CheckRuns
  <1>17. CASE CheckFails \/ switch_bootmode
    <2>1. /\ pc \in {"check_failed", "switch_bootmode"}
          /\ pc' \in {"recovery", "fastboot", "kernel"}
      BY <1>17 DEF CheckFails, switch_bootmode
    <2>2. Status' = Status
      BY <1>17, BootSteps DEF Asks
    <2>3. Status \notin {"next", "finish"}
      BY <1>6, <2>1 DEF CheckRuns
    <2> QED BY <2>1, <2>2, <2>3 DEF CheckRuns
  <1> QED BY <1>7, <1>8, <1>9, <1>10, <1>11, <1>12, <1>13, <1>14, <1>15, <1>16, <1>17
          DEF Boot, fastboot_step_check, recovery_update

\* The image of a list of writes, and those of the copies, are numbers.
LEMMA ImageNumbers ==
    ASSUME TypeInv
    PROVE  /\ gen \in Nat /\ gen # 0 /\ bootloader_up \in Nat
           /\ \A c \in 0..2 : copies[c] \in Nat
           /\ \A i \in DOMAIN writes : writes[i].img \in Nat
  <1>1. writes \in Seq([img : Images, dst : 0..2])
    BY DEF TypeInv, TypeOK
  <1>2. \A i \in DOMAIN writes : writes[i] \in [img : Images, dst : 0..2]
    BY <1>1, ElementOfSeq, LenProperties
  <1> QED BY <1>2, Constants DEF TypeInv, TypeOK, Images, Builds, Torn

LEMMA TellsRequest ==
    ASSUME TypeInv, General, FirstKept, Tells, Request
    PROVE  Tells'
  <1>1. UNCHANGED <<gpt, accepted, copies, writes>> /\ env \in Env /\ gen \in Nat
    <2>1. UNCHANGED <<gpt, accepted, copies, writes>>
      BY RequestSteps
    <2>2. env \in Env
      BY DEF TypeInv, TypeOK
    <2> QED BY <2>1, <2>2, ImageNumbers
  <1>2. First' = First /\ First \in {0, 1}
    BY <1>1 DEF First
  <1>3. /\ gen' \in Nat /\ gen <= gen' /\ bootloader_up' <= gen'
        /\ FinishRobustUpdate => gen' = gen
    <2>1. /\ gen' = gen \/ gen' = gen + 1
          /\ bootloader_up' = bootloader_up \/ bootloader_up' = gen'
          /\ FinishRobustUpdate => gen' = gen
      BY DEF Request, FinishWriteBoot, set_default_env, set_fastboot_step, check_fastboot_step,
             UserReboots, StartFastboot, RequestRecoveryUpdate, RequestWriteBoot,
             FinishRobustUpdate, partitions
    <2>2. bootloader_up <= gen /\ bootloader_up \in Nat
      BY ImageNumbers DEF Tells, Built
    <2> QED BY <1>1, <2>1, <2>2
  <1>4. Built'
    BY <1>1, <1>3, ImageNumbers DEF Tells, Built
  <1>5. Robust /\ CheckRuns
    BY DEF Tells
  <1>6. CASE FinishRobustUpdate
    <2>1. pc = "robust_update" /\ pc' = "rom" /\ ~next'
      BY <1>6 DEF FinishRobustUpdate, Reboot
    <2>2. PICK c \in 1..2 : /\ copies[c] = gen
                            /\ Status' = "next" /\ env'.expect_index = c
                            /\ env'.upgrade_step = 1 /\ env'.write_boot = env.write_boot
      BY <1>1, <1>6, ChecksEnv
    <2>3. c = First + 1 /\ ~env.write_boot
      BY <1>5, <2>1, <2>2 DEF Robust, FirstKept
    <2> QED BY <1>2, <1>4, <2>1, <2>2, <2>3 DEF Tells, Robust, CheckRuns
  <1>7. CASE \/ FinishWriteBoot \/ set_default_env \/ set_fastboot_step \/ check_fastboot_step
             \/ UserReboots \/ StartFastboot \/ RequestRecoveryUpdate \/ RequestWriteBoot
    <2>1. /\ pc \in {"write_boot", "flash", "set_fastboot_step", "check_fastboot_step", "kernel",
                     "recovery", "cli"}
          /\ pc' \in {"rom", "set_fastboot_step", "fastboot", "kernel"}
      BY <1>7 DEF FinishWriteBoot, set_default_env, set_fastboot_step, check_fastboot_step,
                  UserReboots, StartFastboot, RequestRecoveryUpdate, RequestWriteBoot, Reboot
    <2>2. Status' = Status
      BY <1>7, RequestSteps DEF Asks
    <2>3. Status \notin {"next", "finish"}
      BY <1>5, <2>1 DEF CheckRuns
    <2> QED BY <1>4, <2>1, <2>2, <2>3 DEF Tells, Robust, CheckRuns
  <1> QED BY <1>6, <1>7 DEF Request

LEMMA TellsWriting ==
    ASSUME TypeInv, General, FirstKept, Tells, write_bootloader
    PROVE  Tells'
  <1> DEFINE w == Head(writes)
  <1>1. /\ writes # <<>> /\ w.dst \in 0..2
        /\ \E j \in DOMAIN writes : writes[j] = w
        /\ \A c \in 0..2 : c # w.dst => copies'[c] = copies[c]
        /\ copies'[w.dst] = Torn \/ copies'[w.dst] = w.img
        /\ \A i \in DOMAIN writes' : \E j \in DOMAIN writes : writes'[i] = writes[j]
        /\ UNCHANGED <<gpt, accepted, bootloader_up, env, pc, idx, next, mode, gen>>
    BY WriteStep DEF device, partitions
  <1> HIDE DEF w
  <1>2. First' = First /\ Status' = Status
    BY <1>1 DEF First, Status
  <1>3. Built'
    <2>1. Torn <= gen /\ w.img <= gen
      BY <1>1, ImageNumbers DEF Tells, Built, Torn
    <2> QED BY <1>1, <2>1 DEF Tells, Built
  <1>4. Robust'
    <2> SUFFICES ASSUME pc = "robust_update" PROVE Robust'
      BY <1>1 DEF Robust
    <2>1. w.dst = First + 1
      BY <1>1 DEF Tells, Robust
    <2>2. \A c \in 0..2 : copies'[c] = gen => c = First + 1
      BY <1>1, <2>1 DEF Tells, Robust
    <2> QED BY <1>1, <1>2, <2>2 DEF Tells, Robust
  <1>5. CheckRuns'
    <2>1. pc \in Writing
      BY <1>1 DEF General
    <2> QED BY <1>1, <1>2, <2>1 DEF Tells, CheckRuns, Writing
  <1> QED BY <1>3, <1>4, <1>5 DEF Tells

LEMMA TellsWrites ==
    ASSUME TypeInv, General, FirstKept, Tells,
           StartWriteBoot \/ flash \/ FastbootReboot \/ StartRobustUpdate
    PROVE  Tells'
  <1>1. /\ UNCHANGED <<gpt, accepted, copies, env>> /\ writes = <<>> /\ Status' = Status
        /\ First' = First /\ First \in {0, 1} /\ (gpt => First = 1) /\ (~gpt => First = 0)
    <2>1. UNCHANGED <<gpt, accepted, copies, env>>
      BY DEF StartWriteBoot, flash, FastbootReboot, StartRobustUpdate, device
    <2>2. writes = <<>>
      BY DEF StartWriteBoot, flash, FastbootReboot, StartRobustUpdate, Written, General, Writing
    <2> QED BY <2>1, <2>2 DEF Status, First
  <1>2. /\ gen < MaxGen => gen + 1 \in Images
        /\ bootloader_up \in Images
    BY NextBuild DEF TypeInv, TypeOK
  <1>3. CheckRuns'
    <2>1. /\ pc \in {"non_ab_update", "fastboot", "recovery"}
          /\ pc = "non_ab_update" => env.write_boot
          /\ pc' \in {"write_boot", "flash", "check_fastboot_step", "rom", "robust_update"}
      BY DEF StartWriteBoot, flash, FastbootReboot, StartRobustUpdate, Reboot
    <2>2. Status \notin {"next", "finish"}
      BY <2>1 DEF Tells, CheckRuns
    <2> QED BY <1>1, <2>1, <2>2 DEF CheckRuns
  <1>4. CASE StartWriteBoot
    <2>1. DOMAIN writes' = {1, 2} /\ writes'[1].img = bootloader_up /\ writes'[2].img = bootloader_up
      BY <1>2, <1>4, TwoWrites, WriteType DEF StartWriteBoot, WriteBootWrites
    <2>2. pc' = "write_boot" /\ UNCHANGED <<bootloader_up, gen>>
      BY <1>4 DEF StartWriteBoot, partitions
    <2> QED BY <1>1, <1>3, <2>1, <2>2 DEF Tells, Built, Robust
  <1>5. CASE flash
    <2>1. /\ pc' = "flash" /\ gen + 1 \in Images /\ gen' = gen + 1
          /\ bootloader_up' = gen + 1 /\ writes' = FlashWrites(gen + 1)
      BY <1>2, <1>5 DEF flash
    <2>2. \A i \in DOMAIN writes' : writes'[i].img = gen + 1
      BY <2>1, FlashWritesOk DEF TypeInv
    <2> QED BY <1>1, <1>3, <2>1, <2>2, ImageNumbers DEF Tells, Built, Robust
  <1>6. CASE FastbootReboot
    <2>1. /\ UNCHANGED <<bootloader_up, gen>> /\ pc' \in {"check_fastboot_step", "rom"}
          /\ writes' = TrialCopies \/ writes' = writes
      BY <1>6 DEF FastbootReboot, Reboot, partitions
    <2>2. \A i \in DOMAIN TrialCopies : TrialCopies[i].img <= gen
      BY TrialCopiesOk DEF TypeInv, Tells, Built
    <2> QED BY <1>1, <1>3, <2>1, <2>2 DEF Tells, Built, Robust
  <1>7. CASE StartRobustUpdate
    <2>1. pc = "recovery" /\ bootloader_up' = bootloader_up /\ gen' = gen + 1 /\ gen + 1 \in Images
      BY <1>2, <1>7 DEF StartRobustUpdate, partitions
    <2>2. PICK c \in Usable \ {2} : /\ \A d \in Usable : c <= d
                                    /\ writes' = <<Write(gen + 1, c + 1)>>
      BY <1>7 DEF StartRobustUpdate
    <2>3. First \in Usable
      BY <1>1 DEF FirstKept, InProgress, Usable, Copies
    <2>4. c = First /\ c + 1 \in 0..2
      BY <1>1, <2>2, <2>3 DEF Usable, Copies
    <2>5. /\ DOMAIN writes' = {1}
          /\ writes'[1].dst = First + 1 /\ writes'[1].img = gen + 1
      BY <2>1, <2>2, <2>4, WriteType, OneWrite
    <2>6. \A d \in 0..2 : copies[d] # gen + 1 /\ copies[d] <= gen + 1
      BY ImageNumbers DEF Tells, Built
    <2> QED BY <1>1, <1>3, <2>1, <2>5, <2>6, ImageNumbers DEF Tells, Built, Robust
  <1> QED BY <1>4, <1>5, <1>6, <1>7

TellsInv == IInv /\ (cuts = 0 => Tells)

LEMMA TellsKept == ~FlashOnTrial /\ TellsInv /\ [Next]_vars => TellsInv'
  <1> SUFFICES ASSUME ~FlashOnTrial, TellsInv, [Next]_vars PROVE TellsInv'
    OBVIOUS
  <1> USE DEF TellsInv
  <1>1. IInv' /\ TypeInv /\ General /\ cuts \in Nat /\ (cuts = 0 => FirstKept)
    BY IInvKept DEF IInv, TypeInv, TypeOK
  <1>2. CASE Boot
    <2>1. cuts' = cuts
      BY <1>1, <1>2, BootSteps DEF Still
    <2> QED BY <1>1, <1>2, <2>1, TellsBoot
  <1>3. CASE Request
    <2>1. cuts' = cuts
      BY <1>1, <1>3, RequestSteps
    <2> QED BY <1>1, <1>3, <2>1, TellsRequest
  <1>4. CASE write_bootloader
    <2>1. cuts' = cuts
      BY <1>4 DEF write_bootloader
    <2> QED BY <1>1, <1>4, <2>1, TellsWriting
  <1>5. CASE StartWriteBoot \/ flash \/ FastbootReboot \/ StartRobustUpdate
    <2>1. cuts' = cuts
      BY <1>5 DEF StartWriteBoot, flash, FastbootReboot, StartRobustUpdate
    <2> QED BY <1>1, <1>5, <2>1, TellsWrites
  <1>6. CASE PowerCut
    <2>1. cuts' = cuts + 1
      BY <1>6 DEF PowerCut
    <2> QED BY <1>1, <2>1
  <1>7. CASE UNCHANGED vars
    BY <1>1, <1>7
       DEF Tells, Built, Robust, CheckRuns, Asked, Ok, Status, First, vars, device, partitions
  <1> QED BY <1>2, <1>3, <1>4, <1>5, <1>6, <1>7
          DEF Next, UBoot, Outside, Boot, Request, non_ab_update

\* A check ends with the truth about the copy that was to be started.
LEMMA CheckEnds ==
    ASSUME TellsInv, [Next]_vars, pc \in {"check", "check_failed"}, pc' = "recovery", cuts = 0
    PROVE  (env'.check_result = "bootloader_fail") = (copies[env.expect_index] \notin accepted)
  <1>1. TypeInv /\ CheckRuns /\ env \in Env
    BY DEF TellsInv, Tells, IInv, TypeInv, TypeOK
  <1>2. FinishCheck \/ CheckFails
    BY DEF Next, UBoot, Outside, fastboot_step_check, non_ab_update, recovery_update, BootRom,
           BootRomFails, aml_update_env, StartTrial, TrialFailed, NoFastbootStep, StartWriteBoot,
           FinishWriteBoot, SkipRecovery, StartRecoveryUpdate, FinishRecoveryUpdate,
           ClearRecoveryNeedUpdate, NoSecureCheck, StartCheck, switch_bootmode, write_bootloader,
           set_default_env, set_fastboot_step, check_fastboot_step, flash, FastbootReboot,
           UserReboots, StartFastboot, RequestRecoveryUpdate, RequestWriteBoot,
           StartRobustUpdate, FinishRobustUpdate, PowerCut, Reboot, vars
  <1>3. CASE FinishCheck
    <2>1. Status = "finish" /\ env'.check_result = env.check_result
      BY <1>1, <1>3, ChecksEnv
    <2>2. pc = "check" /\ Matches
      BY <1>3 DEF FinishCheck
    <2>3. Ok(env.expect_index) /\ env.check_result = "succ"
      BY <1>1, <2>1, <2>2 DEF CheckRuns, Matches
    <2> QED BY <2>1, <2>3 DEF Ok
  <1>4. CASE CheckFails
    <2>1. env'.check_result = "bootloader_fail" /\ pc = "check_failed"
      BY <1>1, <1>4, ChecksEnv DEF CheckFails
    <2>2. ~Ok(env.expect_index)
      BY <1>1, <2>1 DEF CheckRuns
    <2> QED BY <2>1, <2>2 DEF Ok
  <1> QED BY <1>2, <1>3, <1>4

\* Without a power cut the result that recovery is started to show is the truth about the
\* bootloader it had written, whatever an earlier check found and whatever was flashed in
\* between, as long as the host does not flash while a trial runs.
THEOREM NonAbCheckTells == ~FlashOnTrial => (Spec => CheckTells)
  <1> SUFFICES ASSUME ~FlashOnTrial PROVE Spec => CheckTells
    OBVIOUS
  <1>1. TellsInv /\ [Next]_vars => TellsInv'
    BY TellsKept
  <1>2. Init => TellsInv
    <2> SUFFICES ASSUME Init PROVE TellsInv
      OBVIOUS
    <2>1. Status = "init" /\ writes = <<>> /\ pc = "rom" /\ gen = 1 /\ bootloader_up = 1
          /\ copies = [c \in 0..2 |-> 1]
      BY DEF Init, DefaultEnv, Status
    <2> QED BY <2>1, InitIInv DEF TellsInv, Tells, Built, Robust, CheckRuns
  <1>3. TellsInv /\ [Next]_vars
        => [(pc \in {"check", "check_failed"} /\ pc' = "recovery" /\ cuts = 0)
            => ((env'.check_result = "bootloader_fail")
                = (copies[env.expect_index] \notin accepted))]_vars
    BY CheckEnds
  <1> QED BY <1>1, <1>2, <1>3, PTL DEF Spec, CheckTells
=============================================================================
