------------------------- MODULE MCRegisterAccess -------------------------
(* RegisterAccess with one register of each kind, a few at a time.  The    *)
(* names of one register meet, and so do the two banks, EFER as a register *)
(* and as an MSR, and names and MSRs that a platform does not support.     *)
EXTENDS RegisterAccess

MCFamilies ==
    {{"rax"}, {"rsp"}, {"r8", "cr8"}, {"rip"}, {"rflags"}, {"efer", "cr"}, {"efer", "pat"},
     {"cr", "xmm", "xcr0"}, {"st", "cr"}, {"control", "ymm"}, {"pat", "hidden", "specctrl"}}
=============================================================================
