-------------------------- MODULE MCKvmRegisters --------------------------
(* KvmRegisters with a register or two in each bank.                       *)
EXTENDS KvmRegisters

\* RIP, RFLAGS, CR3, DR7, XMM0, the x87 control word, MXCSR, EFER (an MSR that m_sregs
\* holds too) and LSTAR (an MSR in no bank).
MCBankOf ==
    [r \in Registers |->
        CASE r \in {"rip", "rflags"} -> "regs"
          [] r \in {"cr3", "efer"}   -> "sregs"
          [] r = "dr7"               -> "debugRegs"
          [] r = "lstar"             -> "none"
          [] OTHER                   -> "fpuRegs"]
=============================================================================
