--------------------------- MODULE BootAreaProofs ---------------------------
(***************************************************************************)
(* Proofs that BootArea keeps its types, that it changes the named copies  *)
(* only, and that a write costs at most one usable copy, with a GPT and    *)
(* without one.                                                            *)
(***************************************************************************)
EXTENDS BootArea, TLAPS

\* What is left of the mask after the loop counter has reached n.
Rest(arg, n) == CASE n = 0 -> Mask(arg)
                  [] n = 1 -> Mask(arg) \div 2
                  [] n = 2 -> (Mask(arg) \div 2) \div 2
                  [] OTHER -> 0

\* The mask, the counter and the selected partition stay in step.
InStep ==
    /\ pc # "idle" => op.cpy = Rest(op.arg, i)
    /\ pc \in {"selected", "access"} =>
         i \in Copies /\ hwpart = i /\ i \in Named(op.arg)
    /\ pc = "access" => ~(i = USER_PARTITION /\ Gpt)

\* A copy is what it was, or complete.
Sound(c) == area[c] \in {before[c], "new"}

\* At most the copy being written, or the one an error or a power cut left
\* behind, is not sound.
AtRisk ==
    op.kind = "write" =>
      /\ pc \in {"loop", "selected"} => \A c \in Copies : Sound(c)
      /\ pc = "access" => \A c \in Copies \ {i} : Sound(c)
      /\ \E k \in Copies : \A c \in Copies \ {k} : Sound(c)

IInv == TypeOK /\ InStep /\ AtRisk

-----------------------------------------------------------------------------
\* The mask and the argument name the same copies, at every turn of the loop.
LEMMA MaskNames ==
    ASSUME NEW arg \in CpyArgs, NEW n \in Copies
    PROVE  /\ Rest(arg, n) % 2 = 1 => n \in Named(arg)
           /\ Rest(arg, n) \in 0..7
           /\ Rest(arg, n) \div 2 = Rest(arg, n + 1)
           /\ Rest(arg, 0) = Mask(arg)
  <1>1. CASE arg = 0
    BY <1>1 DEF Rest, Mask, Named, Copies, BOOT_OPS_ALL
  <1>2. CASE arg = 1
    BY <1>2 DEF Rest, Mask, Named, Copies, BOOT_OPS_ALL
  <1>3. CASE arg = 2
    BY <1>3 DEF Rest, Mask, Named, Copies, BOOT_OPS_ALL
  <1>4. CASE arg = BOOT_OPS_ALL
    BY <1>4 DEF Rest, Mask, Named, Copies, BOOT_OPS_ALL
  <1> QED BY <1>1, <1>2, <1>3, <1>4 DEF CpyArgs

LEMMA InitIInv == Init => IInv
  BY DEF Init, IInv, TypeOK, InStep, AtRisk, Copies, Contents, CpyArgs,
         BOOT_OPS_ALL, USER_PARTITION

\* One turn of the loop keeps the mask in step with the counter.
LEMMA NextCopyInStep ==
    ASSUME TypeOK, InStep, pc # "idle", i \in Copies, NextCopy
    PROVE  /\ i' \in 0..3
           /\ op' \in [kind : {"read", "write", "erase"}, arg : CpyArgs, cpy : 0..7]
           /\ op'.kind = op.kind /\ op'.arg = op.arg
           /\ op'.cpy = Rest(op'.arg, i')
           /\ pc' = "loop"
  <1>1. i' = i + 1 /\ i' \in 0..3 /\ pc' = "loop"
    BY DEF NextCopy, Copies
  <1>2. op' = [op EXCEPT !.cpy = op.cpy \div 2]
    BY DEF NextCopy
  <1>3. op.cpy = Rest(op.arg, i) /\ op.arg \in CpyArgs /\ op.cpy \in 0..7
    BY DEF InStep, TypeOK
  <1>4. op.cpy \div 2 = Rest(op.arg, i + 1)
    BY <1>3, MaskNames
  <1>5. op.cpy \div 2 \in 0..7
    BY <1>3
  <1> QED BY <1>1, <1>2, <1>3, <1>4, <1>5 DEF TypeOK

LEMMA StepIInv == IInv /\ [Next]_vars => IInv'
  <1> SUFFICES ASSUME IInv, [Next]_vars PROVE IInv'
    OBVIOUS
  <1> USE DEF IInv
  <1>1. ASSUME NEW kind \in {"read", "write", "erase"}, NEW arg \in CpyArgs,
               Call(kind, arg)
        PROVE  IInv'
    <2>1. Mask(arg) = Rest(arg, 0) /\ Mask(arg) \in 0..7
      BY MaskNames DEF Copies
    <2>2. TypeOK'
      BY <1>1, <2>1 DEF Call, TypeOK
    <2>3. InStep'
      BY <1>1, <2>1 DEF Call, InStep
    <2>4. AtRisk'
      BY <1>1 DEF Call, AtRisk, Sound, Copies
    <2> QED BY <2>2, <2>3, <2>4
  <1>2. CASE PassOver
    <2>1. TypeOK'
      BY <1>2, NextCopyInStep DEF PassOver, TypeOK
    <2>2. InStep'
      BY <1>2, NextCopyInStep DEF PassOver, InStep
    <2>3. AtRisk'
      BY <1>2, NextCopyInStep DEF PassOver, AtRisk, Sound
    <2> QED BY <2>1, <2>2, <2>3
  <1>3. CASE Select
    <2>1. TypeOK'
      BY <1>3 DEF Select, Selected, TypeOK
    <2>2. i \in Named(op.arg) /\ i \in Copies
      BY <1>3, MaskNames DEF Select, Selected, InStep, TypeOK
    <2>3. InStep'
      BY <1>3, <2>2 DEF Select, InStep
    <2>4. AtRisk'
      BY <1>3 DEF Select, AtRisk, Sound
    <2> QED BY <2>1, <2>3, <2>4
  <1>4. CASE SkipUser
    <2>1. i \in Copies
      BY <1>4 DEF SkipUser, InStep
    <2>2. TypeOK'
      BY <1>4, <2>1, NextCopyInStep DEF SkipUser, TypeOK
    <2>3. InStep'
      BY <1>4, <2>1, NextCopyInStep DEF SkipUser, InStep
    <2>4. AtRisk'
      BY <1>4, <2>1, NextCopyInStep DEF SkipUser, AtRisk, Sound
    <2> QED BY <2>2, <2>3, <2>4
  <1>5. CASE Read
    <2>1. i \in Copies
      BY <1>5 DEF Read, InStep
    <2>2. op.kind = "read" /\ op'.kind = "read"
      BY <1>5, <2>1, NextCopyInStep DEF Read
    <2>3. TypeOK'
      BY <1>5, <2>1, NextCopyInStep DEF Read, TypeOK
    <2>4. InStep'
      BY <1>5, <2>1, NextCopyInStep DEF Read, InStep
    <2>5. AtRisk'
      BY <2>2 DEF AtRisk
    <2> QED BY <2>3, <2>4, <2>5
  <1>6. CASE StartAccess
    <2>1. hwpart = i /\ i \in Copies
      BY <1>6 DEF StartAccess, InStep
    <2>2. TypeOK'
      BY <1>6, <2>1 DEF StartAccess, TypeOK, Contents
    <2>3. InStep'
      BY <1>6, <2>1 DEF StartAccess, InStep, USER_PARTITION
    <2>4. AtRisk'
      BY <1>6, <2>1 DEF StartAccess, AtRisk, Sound, TypeOK
    <2> QED BY <2>2, <2>3, <2>4
  <1>7. CASE AccessDone
    <2>1. hwpart = i /\ i \in Copies
      BY <1>7 DEF AccessDone, InStep
    <2>2. TypeOK'
      BY <1>7, <2>1, NextCopyInStep DEF AccessDone, TypeOK, Contents
    <2>3. InStep'
      BY <1>7, <2>1, NextCopyInStep DEF AccessDone, InStep
    <2>4. AtRisk'
      BY <1>7, <2>1, NextCopyInStep DEF AccessDone, AtRisk, Sound, TypeOK
    <2> QED BY <2>2, <2>3, <2>4
  <1>8. CASE AccessFails
    BY <1>8 DEF AccessFails, TypeOK, InStep, AtRisk, Sound
  <1>9. CASE EndLoop
    BY <1>9 DEF EndLoop, TypeOK, InStep, AtRisk, Sound
  <1>10. CASE SwitchBack
    BY <1>10 DEF SwitchBack, TypeOK, InStep, AtRisk, Sound, USER_PARTITION, Copies
  <1>11. CASE PowerCut
    BY <1>11 DEF PowerCut, TypeOK, InStep, AtRisk, Sound, USER_PARTITION, Copies
  <1>12. CASE UNCHANGED vars
    BY <1>12 DEF vars, TypeOK, InStep, AtRisk, Sound
  <1> QED BY <1>1, <1>2, <1>3, <1>4, <1>5, <1>6, <1>7, <1>8, <1>9, <1>10,
             <1>11, <1>12 DEF Next

LEMMA AlwaysIInv == Spec => []IInv
  BY InitIInv, StepIInv, PTL DEF Spec

-----------------------------------------------------------------------------
\* Every variable keeps to its range, with a GPT and without one.
THEOREM AreaTypeOK == Spec => []TypeOK
  <1>1. IInv => TypeOK
    BY DEF IInv
  <1> QED BY <1>1, AlwaysIInv, PTL

\* A write costs at most one usable copy, however it ends.
THEOREM AreaOneCopyAtRisk == Spec => []OneCopyAtRisk
  <1>1. IInv => OneCopyAtRisk
    <2> SUFFICES ASSUME IInv, op.kind = "write",
                        NEW c \in Copies, NEW d \in Copies, Lost(c), Lost(d)
                 PROVE  c = d
      BY DEF OneCopyAtRisk
    <2>1. PICK k \in Copies : \A e \in Copies \ {k} : Sound(e)
      BY DEF IInv, AtRisk
    <2>2. ASSUME NEW e \in Copies, Sound(e) PROVE ~Lost(e)
      BY <2>2 DEF Sound, Lost, Usable
    <2> QED BY <2>1, <2>2
  <1> QED BY <1>1, AlwaysIInv, PTL

\* Nothing but the selected copy changes, and only when it was asked for.
THEOREM AreaOnlyNamed == Spec => OnlyNamed
  <1>1. IInv /\ [Next]_vars => [OnlyNamedChange]_vars
    <2> SUFFICES ASSUME IInv, Next, NEW c \in Copies, area'[c] # area[c]
                 PROVE  /\ c = hwpart /\ c = i /\ c \in Named(op.arg)
                        /\ ~(c = USER_PARTITION /\ Gpt)
      BY DEF OnlyNamedChange
    <2>1. \/ pc = "selected" /\ ~(i = 0 /\ Gpt)
          \/ pc = "access"
      BY DEF Next, Call, PassOver, Select, SkipUser, Read, StartAccess,
             AccessDone, AccessFails, EndLoop, SwitchBack, PowerCut
    <2>2. c = hwpart
      BY DEF Next, Call, PassOver, Select, SkipUser, Read, StartAccess,
             AccessDone, AccessFails, EndLoop, SwitchBack, PowerCut, IInv, TypeOK
    <2> QED BY <2>1, <2>2 DEF IInv, InStep, USER_PARTITION
  <1> QED BY <1>1, AlwaysIInv, PTL DEF Spec, OnlyNamed
=============================================================================
