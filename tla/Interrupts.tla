----------------------------- MODULE Interrupts -----------------------------
(***************************************************************************)
(* The interrupt descriptor table (idt.c, isr.c) and the master interrupt  *)
(* controller, as the first screen of kernel_main sets them up.            *)
(*                                                                         *)
(* A gate is the entry point it leads to.  The slave controller is left    *)
(* out: its lines stay masked.  The functions of pic.c, and isr_handler    *)
(* and irq_handler of isr.c, are not called.                               *)
(***************************************************************************)
EXTENDS Integers

VARIABLES
    idt,        \* the gate of each vector, "none" if it is not present
    pic_base,   \* vector of IRQ 0
    pic_mask    \* masked lines

tables == <<idt, pic_base, pic_mask>>

Lines == 0..7
Vectors == 0..255
Exceptions == 0..31                     \* vectors the processor itself uses
ExceptionGates == (0..8) \cup {13, 14}

\* What GRUB leaves: no table of the kernel's, and the controller as the BIOS
\* programmed it, with IRQ 0 on the vector of the double fault.
TablesInit ==
    /\ idt = [v \in Vectors |-> "none"]
    /\ pic_base = 8
    /\ pic_mask = {}

idt_init ==
    /\ idt' = [[v \in Vectors |-> "none"] EXCEPT ![32] = "irq0", ![33] = "irq1"]
    /\ UNCHANGED <<pic_base, pic_mask>>

isr_init ==
    /\ idt' = [[v \in Vectors |-> IF v \in ExceptionGates THEN "isr" ELSE idt[v]]
                  EXCEPT ![32] = "irq0", ![33] = "irq1"]
    /\ UNCHANGED <<pic_base, pic_mask>>

\* Mutant: the controller is initialised with the vectors the BIOS gave it.
RemapPic_AsBefore ==
    /\ pic_mask' = Lines
    /\ UNCHANGED <<idt, pic_base>>

\* The four initialisation words, and every line masked.
RemapPic ==
    /\ pic_base' = 32
    /\ pic_mask' = Lines
    /\ UNCHANGED idt

\* Gates for the vectors the BIOS uses, on top of those of the double fault and
\* the page fault, and for system calls.
SetGates ==
    /\ idt' = [idt EXCEPT ![8] = "irq0", ![14] = "irq1", ![128] = "int80_handler"]
    /\ UNCHANGED <<pic_base, pic_mask>>

UnmaskTimer ==
    /\ pic_mask' = Lines \ {0}
    /\ UNCHANGED <<idt, pic_base>>

-----------------------------------------------------------------------------
Handler(vector) == idt[vector]
IrqHandler(line) == Handler(pic_base + line)

Handlers == {"none", "irq0", "irq1", "isr", "int80_handler"}
TablesTypeOK ==
    /\ idt \in [Vectors -> Handlers]
    /\ pic_base \in {8, 32} /\ pic_mask \subseteq Lines
=============================================================================
