---------------------------- MODULE Descriptors ----------------------------
(***************************************************************************)
(* The descriptor tables of the guest as VirtualProcessor reads and writes *)
(* them (core/src/vp/vp.cpp, gdt.cpp, idt.cpp): GetGDTEntry, SetGDTEntry,  *)
(* ReadSegment, GetSegmentSize and the IDT entries, while another virtual  *)
(* processor stores descriptors of its own.                                *)
(*                                                                         *)
(* A table is a row of 8-byte words; limits, selectors and offsets are in  *)
(* bytes.  The fields of a word are scaled to one bit each, so that the    *)
(* 32-bit base of a segment is 3 bits, the 20-bit limit 2 bits, the 32-bit *)
(* offset of a gate 2 bits, and the 32 bits that the second word of a      *)
(* 16-byte descriptor adds are 2 bits.  The 16 types of a system           *)
(* descriptor are the classes that the code tells apart.                   *)
(***************************************************************************)
EXTENDS Integers, FiniteSets

CONSTANTS
    TableLimits,    \* the limits in GDTR and IDTR: the last byte of the table
    Selectors,      \* the selectors callers pass, multiples of 8
    Vectors,        \* the vectors callers pass
    Bases, Limits,  \* the values that are stored
    FlagSets,       \* the flags that are stored: sets of "g", "l", "d"
    MaxStores       \* bound: descriptors stored in a behaviour

ASSUME DescriptorAssumption ==
    /\ TableLimits \subseteq Nat /\ Vectors \subseteq Nat /\ MaxStores \in Nat
    /\ \A s \in Selectors : s \in Nat /\ s % 8 = 0
    /\ Bases \subseteq 0 .. 31 /\ Limits \subseteq 0 .. 3

VARIABLES
    ia32e,      \* IsIA32eMode
    limit,      \* table.limit of GDTR and IDTR
    gdt,        \* the words of the GDT and beyond
    reader,     \* GetGDTEntry between its two reads: the selector, or NoReader
    result,     \* what the last GetGDTEntry and ReadSegment returned
    stored,     \* history: the descriptors in the table as they were meant
    reach,      \* history: the last byte of the GDT the application touched
    idtReach,   \* history: the same for the IDT
    stores      \* descriptors stored so far

tableVars == <<ia32e, limit, gdt, reader, result, stored, reach, idtReach, stores>>

Kinds == {"segment",    \* system is 1: code and data
          "ldt",        \* 0010
          "tss16",      \* 0001, 0011
          "tss",        \* 1001, 1011
          "gate",       \* 1100, 1110, 1111
          "gate16",     \* 0100, 0110, 0111
          "taskgate",   \* 0101
          "reserved"}   \* 0000, 1000, 1010, 1101

\* The descriptors of 16 bytes in IA-32e mode.
Extended == {"ldt", "tss", "gate"}
Gates == {"gate", "gate16"}

Index(selector) == selector \div 8
Words == UNION {{Index(s), Index(s) + 1} : s \in Selectors}
NoReader == -1
NoEntry == [kind |-> "none", base |-> 0, limit |-> 0, flags |-> {}]

-----------------------------------------------------------------------------
(* Descriptors *)

\* Half of a base or an offset: 2^32, scaled.
Half(kind) == IF kind \in Gates THEN 4 ELSE 8

\* GDTDescriptor::Set, LDTDescriptor::Set and NonTaskGateDescriptor::SetOffset: the
\* first word.  The offset of a gate is where the limit and the top of a base are.
FirstWord(d) ==
    IF d.kind \in Gates
    THEN [kind |-> d.kind, limitLow |-> d.base % 2, limitHigh |-> 0, baseLow |-> 0,
          baseMid |-> 0, baseHigh |-> (d.base \div 2) % 2, flags |-> {}]
    ELSE [kind |-> d.kind, limitLow |-> d.limit % 2, limitHigh |-> (d.limit \div 2) % 2,
          baseLow |-> d.base % 2, baseMid |-> (d.base \div 2) % 2,
          baseHigh |-> (d.base \div 4) % 2, flags |-> d.flags]

\* The second word: baseTop, or offsetTop, lies where the first has limitLow and baseLow.
TopWord(top) ==
    [kind |-> "reserved", limitLow |-> top % 2, limitHigh |-> 0, baseLow |-> top \div 2,
     baseMid |-> 0, baseHigh |-> 0, flags |-> {}]
TopOf(word) == word.limitLow + 2 * word.baseLow

\* Mutant: baseMid and baseHigh change places.
Low32_Swapped(word) ==
    IF word.kind \in Gates THEN word.limitLow + 2 * word.baseHigh
    ELSE word.baseLow + 2 * word.baseHigh + 4 * word.baseMid

Low32(word) ==
    IF word.kind \in Gates THEN word.limitLow + 2 * word.baseHigh
    ELSE word.baseLow + 2 * word.baseMid + 4 * word.baseHigh

\* GetBase of the descriptors and GetOffset of a gate.  The lower half is an int: if its
\* highest bit is set, all bits above it are when it meets the 64-bit upper half.
GetBase(first, second) ==
    IF first.kind = "segment" THEN Low32(first)
    ELSE IF first.baseHigh = 1 THEN Low32(first) + 3 * Half(first.kind)
    ELSE Low32(first) + TopOf(second) * Half(first.kind)

\* GetLimit
GetLimit(word) ==
    LET limit20 == word.limitLow + 2 * word.limitHigh
    IN IF "g" \in word.flags THEN 2 * limit20 + 1 ELSE limit20

\* ComputeSegmentSize
ComputeSegmentSize(flags) ==
    IF ia32e /\ "l" \in flags THEN 64 ELSE IF "d" \in flags THEN 32 ELSE 16

-----------------------------------------------------------------------------
(* GetGDTEntry, ReadSegment *)

NoResult == [status |-> "none", segment |-> "none", kind |-> "none", base |-> 0,
             limit |-> 0, size |-> 0, meant |-> NoEntry]

Refuse(status) == result' = [NoResult EXCEPT !.status = status, !.segment = status]

\* ReadSegment: gates cannot be loaded into a segment register.
Loadable(kind) == kind \in {"segment", "ldt", "tss"} \/ (kind = "tss16" /\ ~ia32e)

\* GetGDTEntry returns OK with an entry; ReadSegment, and with it GetSegmentSize, goes on.
Return(selector, first, second) ==
    result' = [status |-> "OK",
               segment |-> IF Loadable(first.kind) THEN "OK" ELSE "InvalidSelector",
               kind |-> first.kind, base |-> GetBase(first, second),
               limit |-> GetLimit(first), size |-> ComputeSegmentSize(first.flags),
               meant |-> stored[Index(selector)]]

\* Mutant: only the selector is compared with the limit.
Fits_Start(selector, size) == selector <= limit

\* A descriptor of this size is taken to be in the table.
Fits(selector, size) == selector + size <= limit

MaxOf(a, b) == IF a > b THEN a ELSE b
Reached(selector, size) == reach' = MaxOf(reach, selector + size - 1)

\* The limit is checked and eight bytes are read.  In legacy modes the second half of
\* the caller's entry is left alone: it is whatever was there.
ReadFirst(selector) ==
    /\ reader = NoReader
    /\ IF ~Fits(selector, 8)
       THEN Refuse("InvalidSelector") /\ UNCHANGED <<reader, reach>>
       ELSE LET word == gdt[Index(selector)]
            IN /\ Reached(selector, 8)
               /\ CASE word.kind = "segment" \/ (~ia32e /\ word.kind # "reserved") ->
                         /\ \E top \in 0 .. 3 : Return(selector, word, TopWord(top))
                         /\ UNCHANGED reader
                    [] ia32e /\ word.kind \in Extended /\ Fits(selector, 16) ->
                         reader' = selector /\ result' = NoResult
                    [] OTHER -> Refuse("InvalidSelector") /\ UNCHANGED reader
    /\ UNCHANGED <<ia32e, limit, gdt, stored, idtReach, stores>>

\* Sixteen bytes are read; the type is not looked at again.
ReadSecond ==
    /\ reader # NoReader
    /\ Return(reader, gdt[Index(reader)], gdt[Index(reader) + 1])
    /\ Reached(reader, 16)
    /\ reader' = NoReader
    /\ UNCHANGED <<ia32e, limit, gdt, stored, idtReach, stores>>

\* RegRead or one of the two MemReads fails.
ReadFails ==
    /\ Refuse("Failed")
    /\ reader' = NoReader
    /\ UNCHANGED <<ia32e, limit, gdt, stored, reach, idtReach, stores>>

-----------------------------------------------------------------------------
(* SetGDTEntry *)

Wide(kind) == ia32e /\ kind \in Extended

\* The table after n words of a descriptor were written at a selector, and what the
\* descriptors that it overlaps are worth.
Written(selector, d, n) ==
    LET i == Index(selector)
    IN /\ gdt' = [w \in Words |-> IF w = i /\ n > 0 THEN FirstWord(d)
                                  ELSE IF w = i + 1 /\ n > 1 THEN TopWord(d.base \div Half(d.kind))
                                  ELSE gdt[w]]
       /\ stored' = [w \in Words |->
                        IF w = i THEN IF n = (IF Wide(d.kind) THEN 2 ELSE 1) THEN d ELSE NoEntry
                        ELSE IF w = i + 1 /\ n > 1 THEN NoEntry
                        ELSE IF w = i - 1 /\ Wide(stored[w].kind) THEN NoEntry
                        ELSE stored[w]]

\* The first eight bytes are written before the type and the longer descriptor's end
\* are checked, and stay written if the status is InvalidSelector or Failed.
SetGDTEntry(selector, d) ==
    /\ reader = NoReader /\ stores < MaxStores /\ stores' = stores + 1
    /\ \/ UNCHANGED <<gdt, stored, reach>>      \* InvalidSelector, or MemWrite failed
       \/ \E n \in 1 .. 2 :
             /\ Fits(selector, 8 * n)
             /\ n = 2 => Wide(d.kind)
             /\ Written(selector, d, n) /\ Reached(selector, 8 * n)
    /\ result' = NoResult
    /\ UNCHANGED <<ia32e, limit, reader, idtReach>>

\* Another virtual processor stores a descriptor, also between the two reads (external).
GuestStore(selector, d) ==
    /\ stores < MaxStores /\ stores' = stores + 1
    /\ Written(selector, d, IF Wide(d.kind) THEN 2 ELSE 1)
    /\ result' = NoResult
    /\ UNCHANGED <<ia32e, limit, reader, reach, idtReach>>

\* GetIDTEntry and SetIDTEntry: eight bytes, in every mode.
AccessIDTEntry(vector) ==
    /\ reader = NoReader
    /\ vector * 8 <= limit
    /\ idtReach' = MaxOf(idtReach, vector * 8 + 7)
    /\ UNCHANGED <<ia32e, limit, gdt, reader, result, stored, reach, stores>>

-----------------------------------------------------------------------------

\* The descriptors stored: bases that fit, no limit and flags where there are none.
Entries ==
    {d \in [kind : Kinds, base : Bases, limit : Limits, flags : FlagSets] :
        d.kind \in {"segment", "ldt", "tss16", "tss"} /\ (d.base < 8 \/ Wide(d.kind))}
    \cup {d \in [kind : Gates, base : Bases, limit : {0}, flags : {{}}] :
              d.base < (IF Wide(d.kind) THEN 16 ELSE 4)}
    \cup [kind : {"taskgate", "reserved"}, base : {0}, limit : {0}, flags : {{}}]

TablesInit ==
    /\ ia32e \in BOOLEAN /\ limit \in TableLimits
    /\ gdt = [w \in Words |-> TopWord(0)]
    /\ reader = NoReader /\ result = NoResult
    /\ stored = [w \in Words |-> NoEntry]
    /\ reach = -1 /\ idtReach = -1 /\ stores = 0

TablesNext ==
    \/ \E s \in Selectors : ReadFirst(s)
    \/ ReadSecond \/ ReadFails
    \/ \E s \in Selectors, d \in Entries : SetGDTEntry(s, d) \/ GuestStore(s, d)
    \/ \E v \in Vectors : AccessIDTEntry(v)

TablesSpec == TablesInit /\ [][TablesNext]_tableVars

-----------------------------------------------------------------------------
(* Properties *)

\* The highest bit of the lower half, where GetBase and GetOffset go wrong.
HighBit(d) == (d.base % Half(d.kind)) * 2 >= Half(d.kind)

\* What GetGDTEntry, ReadSegment and GetSegmentSize return of a descriptor is what was
\* stored, by the application or the guest, though it may be replaced by another one
\* between the two reads: kind, limit, width, and base or offset.  The upper half of a
\* system descriptor's base is right only where it has one, in IA-32e mode, and unless the
\* highest bit of the lower half is set, which gdt.cpp:81 and :106 extend; ReadSegment
\* never returns a gate.
ReadsWhatIsStored ==
    LET d == result.meant
    IN result.status = "OK" /\ d.kind # "none" =>
          /\ result.kind = d.kind
          /\ result.segment = "OK" => d.kind \notin (Gates \cup {"taskgate", "reserved"})
          /\ d.kind \notin Gates =>
                /\ result.limit = (IF "g" \in d.flags THEN 2 * d.limit + 1 ELSE d.limit)
                /\ result.size \in {16, 32, 64}
                /\ result.size = 64 => ia32e /\ "l" \in d.flags
          /\ result.base % Half(d.kind) = d.base % Half(d.kind)
          /\ d.kind = "segment" \/ (Wide(d.kind) /\ ~HighBit(d)) => result.base = d.base

\* The application never touches a byte beyond the limit of the GDT, whatever the
\* selector and type of descriptor, nor beyond that of an IDT that ends with an entry;
\* of one that does not, it may touch the entry that is cut off.
StaysInTable ==
    /\ reach <= limit
    /\ idtReach <= limit \/ limit % 8 # 7

=============================================================================
