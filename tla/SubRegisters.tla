--------------------------- MODULE SubRegisters ---------------------------
(***************************************************************************)
(* The names of registers (enum Reg, core/include/virt86/vp/regs.hpp) and  *)
(* what the HAXM and WHPX backends do to a register when one of its names  *)
(* is read or written.                                                     *)
(*                                                                         *)
(* A register stands for all of its kind and is a set of chunks; a name is *)
(* a register and a view of it.  A move says for each chunk it changes     *)
(* which chunk of the RegValue it comes from.  The reserved bits of RFLAGS *)
(* that fixupFlags forces are not told apart.                              *)
(***************************************************************************)
EXTENDS Integers, Sequences

Legacy   == "rax"       \* RAX, RCX, RDX, RBX
Index    == "rsp"       \* RSP, RBP, RSI, RDI
Extended == "r8"        \* R8 .. R15
General  == {Legacy, Index, Extended}
Counters == {"rip", "rflags"}
Whole    == {"cr", "xmm", "efer", "cr8", "xcr0", "ymm"} \* "cr": CR0-CR4, DRs, segments, tables

\* An FPUControl.  "tw" is the upper byte of its tag word, "rip" and "rdp" the upper halves
\* of its two pointers, "cs" and "ds" their segments; "fp" and "dp" are the rest of the
\* registers these are kept in.
DataPointer == {"dp", "ds", "rdp"}
FPUControl  == {"fp", "tw", "cs", "rip"} \cup DataPointer

\* Bits 7:0, 15:8, 31:16 and 63:32 of a 64-bit register; ST(i) and MMi share a
\* register; "control" is the two registers that hold the FPU and SSE control state.
Chunks(r) ==
    CASE r \in General \cup Counters -> {"b0", "b1", "w", "d"}
      [] r = "st"                    -> {"significand", "exponent"}
      [] r = "control"               -> FPUControl \cup {"mxcsr", "mask"}
      [] OTHER                       -> {"all"}

Views(r) ==
    CASE r = Legacy                  -> {"low8", "high8", "16", "32", "64"}
      [] r \in {Index, Extended}     -> {"low8", "16", "32", "64"}
      [] r \in Counters              -> {"16", "32", "64"}
      [] r = "st"                    -> {"st", "mm"}
      [] r = "control"               -> {"fpu", "mxcsr", "mask"}
      [] OTHER                       -> {"whole"}

NamesOf(rs) == UNION {{r} \X Views(r) : r \in rs}

-----------------------------------------------------------------------------
(* Moves *)

Same(cs) == [c \in cs |-> c]

SetLowByte  == Same({"b0"})
SetHighByte == [c \in {"b1"} |-> "b0"]
SetLowWord  == Same({"b0", "b1"})
LowDword    == Same({"b0", "b1", "w"})
ZeroExtended(move, cs) ==
    [c \in DOMAIN move \cup cs |-> IF c \in DOMAIN move THEN move[c] ELSE "zero"]

\* The chunks a name stands for, and where they are in a RegValue.
Own(n) ==
    CASE n[2] = "low8"  -> SetLowByte
      [] n[2] = "high8" -> SetHighByte
      [] n[2] = "16"    -> SetLowWord
      [] n[2] = "32"    -> LowDword
      [] n[2] = "mm"    -> Same({"significand"})
      [] n[2] = "fpu"   -> Same(FPUControl)
      [] n[2] = "mxcsr" -> Same({"mxcsr"})
      [] n[2] = "mask"  -> Same({"mask"})
      [] OTHER          -> Same(Chunks(n[1]))

\* GetFPUControl and SetFPUControl of HAXM: ftw has 8 bits, fip and fdp have 32.
HaxmControl == ZeroExtended(Same({"fp", "cs", "dp", "ds"}), FPUControl)

\* Those of WHPX: FpTag has 8 bits; LastFpCs and LastFpDs share their place with the upper
\* halves of LastFpRip and LastFpRdp, which are assigned after them.
WhpxControl ==
    [c \in FPUControl |->
        CASE c = "tw" -> "zero" [] c = "cs" -> "rip" [] c = "ds" -> "rdp" [] OTHER -> c]

\* Mutant: a 32-bit name keeps the upper half of the register.
HaxmWrite_KeepsUpper(n) ==
    CASE n[1] = Index /\ n[2] = "low8"     -> ZeroExtended(SetLowByte, {"b1"})
      [] n[1] \in Counters /\ n[2] = "16"  -> ZeroExtended(SetLowWord, {"w"})
      [] n[2] = "fpu"                      -> HaxmControl
      [] OTHER                             -> Own(n)

\* HaxmRegWrite, SetFPUControl, SetMXCSR and SetMXCSRMask.  SPL, BPL, SIL and DIL are
\* assigned to the 16-bit member of the union, IP, EIP, FLAGS and EFLAGS to the 32-bit
\* one, EAX .. R15D to the register.
HaxmWrite(n) ==
    CASE n[1] = Index /\ n[2] = "low8"     -> ZeroExtended(SetLowByte, {"b1"})
      [] n[1] \in Counters /\ n[2] = "16"  -> ZeroExtended(SetLowWord, {"w"})
      [] n[2] = "fpu"                      -> HaxmControl
      [] n[1] \in General /\ n[2] = "32"   -> ZeroExtended(LowDword, {"d"})
      [] OTHER                             -> Own(n)

\* TranslateRegisterValue from a RegValue; the setters of the control registers write
\* structures that are zero but for their own fields.
WhpxWrite(n) ==
    CASE n[2] = "32"    -> ZeroExtended(LowDword, {"d"})
      [] n[2] = "fpu"   -> ZeroExtended(WhpxControl, {"mxcsr", "mask"})
      [] n[2] = "mxcsr" -> ZeroExtended(Own(n), DataPointer \cup {"mask"})
      [] n[2] = "mask"  -> ZeroExtended(Own(n), DataPointer \cup {"mxcsr"})
      [] OTHER          -> Own(n)

\* HaxmRegRead and GetFPUControl: the chunks of the RegValue that are assigned, and from
\* where; a chunk that is not keeps what the caller had in it.
HaxmRead(n) ==
    CASE n[2] = "high8" -> [c \in {"b0"} |-> "b1"]
      [] n[2] = "fpu"   -> HaxmControl
      [] OTHER          -> Own(n)

\* TranslateRegisterValue to a RegValue and GetFPUControl: every view of a 64-bit register
\* is read as all of it, AH, CH, DH and BH too.
WhpxRead(n) ==
    CASE n[1] \in General \cup Counters -> Same(Chunks(n[1]))
      [] n[2] = "fpu"                   -> WhpxControl
      [] OTHER                          -> Own(n)

HaxmSupports(n) == n[1] \notin {"cr8", "xcr0", "ymm"}

\* TranslateRegisterName; XCR0 from version 10.0.17763 on.
WhpxSupports(n, recent) == n[1] # "ymm" /\ (n[1] = "xcr0" => recent)

-----------------------------------------------------------------------------
(* The architecture *)

\* A name changes its own chunks; a 32-bit name of a general register clears the rest.
Architecture(n) ==
    IF n[1] \in General /\ n[2] = "32" THEN ZeroExtended(Own(n), {"d"}) ELSE Own(n)

\* A name is read from its own chunks.
Sources(n) ==
    [v \in {Own(n)[c] : c \in DOMAIN Own(n)} |-> CHOOSE c \in DOMAIN Own(n) : Own(n)[c] = v]

\* Chunks the architecture has no rule for: no instruction writes IP, EIP, FLAGS or
\* EFLAGS apart from the rest of the register.
NoRule(n) == IF n[1] \in Counters THEN Chunks(n[1]) \ DOMAIN Own(n) ELSE {}

=============================================================================
