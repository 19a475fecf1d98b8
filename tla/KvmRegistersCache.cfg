SPECIFICATION Spec
CONSTANTS
    Registers = {"rip", "dr7", "fcw", "mxcsr", "lstar"}
    Writable = {"rip", "dr7"}
    FPUControls = {"fcw"}
    MXCSRs = {"mxcsr"}
    MSRs = {"lstar"}
    BankOf <- MCBankOf
    Values = {v0, v1}
    Zero = v0
    Reset = v1
    Unknown = unknown
    MayFail = TRUE
    Signals = FALSE
INVARIANTS GuestSeesLastWrite ReadsLastWrite
