------------------------------ MODULE UserMode -------------------------------
(***************************************************************************)
(* The border between the first process and the kernel, instruction by     *)
(* instruction: jump_usermode, the syscall instruction, syscall_callback   *)
(* and sysretq, with interrupts and exceptions in between; what the GDT,   *)
(* the TSS and its I/O permission bitmap let the process do; and the       *)
(* process, which is written against libwolffia and prints through the     *)
(* kernel's console.                                                       *)
(*                                                                         *)
(* Registers and words of memory hold integers.  Memory is the top of the  *)
(* process's stack and the kernel stack of the TSS, one address per word.  *)
(* Data that the process has in memory, its strings, are in Texts, and a   *)
(* pointer to one is its index.                                            *)
(***************************************************************************)
EXTENDS Console

CONSTANTS
    Programs,      \* bodies of main: sequences of operations, see Operation
    Texts,         \* the strings of the process; the last one is its panic message
    HaltMessage,   \* "Got system call halt"
    UserStack,     \* addresses of the process's stack
    UserRsp,       \* its stack pointer while it calls the kernel
    KernelStack,   \* addresses of the stack in privilege_stack_table[0]
    IrqWords,      \* words that an interrupt pushes
    Ports,         \* number of I/O ports (65536)
    FirstPort,     \* the ports that run_by_pid grants, from the first (0x3f8) ...
    LastPort       \* ... to the last (0x3ff)

VARIABLES
    pc,       \* where the CPU is
    ip,       \* the next instruction of syscall_callback
    regs,     \* the registers
    mem,      \* the two stacks
    USER_RSP, \* the word where syscall_callback saves the stack pointer
    iomap,    \* IoPermissionsBitMap as the slice that the TSS's descriptor covers: bytes of bits
    program,  \* what the process runs
    before    \* history: the registers at the last syscall instruction

machine == <<ip, regs, mem, USER_RSP>>
fixed == <<iomap, program>>
vars == <<pc, machine, fixed, before, consoleVars>>

Registers == {"rax", "rbx", "rcx", "rdx", "rsi", "rdi", "r8", "r11", "rsp", "rip", "rflags",
              "cs", "ss"}

SYS_HALT == 0
SYS_MAP == 1
SYS_UNMAP == 2
SYS_PRINT == 3

\* What the process does: a call with two arguments, or an access to ports.
Operation ==
    [op : {"call"}, rax : Nat, rdi : Nat, rsi : Nat] \cup [op : {"ports"}, port : Nat, size : Nat]

\* SYSCALL_STACK and the TSS's RSP0: the address above the stack.
SYSCALL_STACK == Max(KernelStack) + 1

\* The kernel stack has room for what a call pushes and one interrupt; the bitmap is of whole
\* bytes, and the ports granted pass the assert of set_port_range_usable.
ASSUME UserModeAssumption ==
    /\ UserStack \subseteq Nat /\ UserRsp \in UserStack
    /\ KernelStack \subseteq Nat \ UserStack /\ KernelStack # {} /\ IsFiniteSet(KernelStack)
    /\ IrqWords \in Nat /\ SYSCALL_STACK - 5 - IrqWords .. SYSCALL_STACK - 1 \subseteq KernelStack
    /\ Ports \in Nat /\ Ports % 8 = 0
    /\ FirstPort \in Nat /\ LastPort \in Nat /\ LastPort \div 8 < Ports \div 8
    /\ \A p \in Programs : \A i \in DOMAIN p : p[i] \in Operation

Junk == -1       \* what a callee leaves in a register that it need not preserve
IrqWord == -2    \* what an interrupt leaves on a stack
UserWord(a) == 100 + a   \* what the process has on its stack

----------------------------------------------------------------------------
(* Segments: the GDT, the selectors in STAR and the constants of jump_usermode *)

\* The entries in the order they are added, after the null descriptor.
Gdt == <<"tss", "tss_high", "kernel_cs", "kernel_ds", "user_ds", "user_cs">>
Selector(name, ring) == 8 * (CHOOSE i \in DOMAIN Gdt : Gdt[i] = name) + ring

\* Star::write takes the four selectors, checks their distances and stores two bases.
StarSyscall == Selector("kernel_cs", 0)
StarSysret == Selector("user_ds", 3) - 8

----------------------------------------------------------------------------
(* The I/O permission bitmap                                                  *)

\* IoPermissionsBitMap::default and as_slice: every bit of every byte is set, and the slice
\* has one byte more than there are ports for, _always_ff.
Bits == 0 .. 7
NoPorts == [byte \in 0 .. Ports \div 8 |-> [bit \in Bits |-> 1]]

\* Mutant: the bits of a byte from the left.
set_port_range_usable_reversed(map, first, last, usable) ==
    [byte \in DOMAIN map |->
        [bit \in Bits |->
            IF \E port \in first .. last : port \div 8 = byte /\ 7 - (port % 8) = bit
            THEN (IF usable THEN 0 ELSE 1) ELSE map[byte][bit]]]

\* The loop over the ports sets one bit for each: the bit port % 8 of the byte port / 8. The
\* assertion before it is met by every range of ports (UserModeAssumption).
set_port_range_usable(map, first, last, usable) ==
    [byte \in DOMAIN map |->
        [bit \in Bits |->
            IF \E port \in first .. last : port \div 8 = byte /\ port % 8 = bit
            THEN (IF usable THEN 0 ELSE 1) ELSE map[byte][bit]]]

\* The CPU (external) reads two bytes, the one with the first port's bit and the one after it,
\* as a word; both must be within the TSS. It tests as many bits of the word as the access has
\* ports, from the first port's on.
WordBit(byte, bit) == IF bit \in Bits THEN iomap[byte][bit] ELSE iomap[byte + 1][bit - 8]
MayAccess(port, size) ==
    /\ (port \div 8) + 1 \in DOMAIN iomap
    /\ \A bit \in port % 8 .. (port % 8) + size - 1 : WordBit(port \div 8, bit) = 0

----------------------------------------------------------------------------
(* syscall_callback, as its instructions                                      *)

Push(r) == [op |-> "push", reg |-> r]
Pop(r) == [op |-> "pop", reg |-> r]
Do(op) == [op |-> op, reg |-> "rsp"]

\* Mutant: the arguments come off the stack in the order they went on.
syscall_callback_pops_in_order ==
    <<Do("save_rsp"), Do("load_stack"), Push("rcx"), Push("r11"), Push("rdx"), Push("rsi"),
      Push("rdi"), Do("sti"), Do("slice"), Do("call"), Pop("rdx"), Pop("rsi"), Pop("rdi"),
      Pop("r11"), Pop("rcx"), Do("restore_rsp"), Do("sysretq")>>

syscall_callback ==
    <<Do("save_rsp"), Do("load_stack"), Push("rcx"), Push("r11"), Push("rdx"), Push("rsi"),
      Push("rdi"), Do("sti"), Do("slice"), Do("call"), Pop("rdi"), Pop("rsi"), Pop("rdx"),
      Pop("r11"), Pop("rcx"), Do("restore_rsp"), Do("sysretq")>>

\* The effect of the instructions that touch registers only.
Effect(op) ==
    CASE op = "load_stack"  -> [regs EXCEPT !.rsp = SYSCALL_STACK]
      [] op = "sti"         -> [regs EXCEPT !.rflags = 1]
      [] op = "slice"       -> [regs EXCEPT !.rsi = regs.rsp, !.rdx = 3, !.rdi = regs.rax]
      [] op = "restore_rsp" -> [regs EXCEPT !.rsp = USER_RSP]
      [] OTHER              -> regs

Init ==
    /\ pc = "kmain" /\ ip = 0
    /\ regs = [[r \in Registers |-> 0] EXCEPT !.rflags = 1, !.cs = StarSyscall,
                                              !.ss = StarSyscall + 8]
    /\ mem = [a \in UserStack \cup KernelStack |-> IF a \in UserStack THEN UserWord(a) ELSE Junk]
    /\ USER_RSP = 0
    /\ iomap = NoPorts
    /\ program \in Programs
    /\ before = regs
    /\ ConsoleInit

\* run_by_pid and jump_usermode: iretq takes the selectors from the constants in its code.
RunByPid ==
    /\ pc = "kmain"
    /\ iomap' = set_port_range_usable(iomap, FirstPort, LastPort, TRUE)
    /\ regs' = [regs EXCEPT !.cs = 51, !.ss = 43, !.rsp = UserRsp, !.rip = 1]   \* 0x33, 0x2b
    /\ pc' = "user"
    /\ UNCHANGED <<ip, mem, USER_RSP, program, before, consoleVars>>

----------------------------------------------------------------------------
(* The process: main's body, then _start's call of halt, then the panic      *)
(* handler of libwolffia, which prints and halts.                            *)

Call(rax, rdi, rsi) == [op |-> "call", rax |-> rax, rdi |-> rdi, rsi |-> rsi]
Code ==
    program \o <<Call(SYS_HALT, 0, 0), Call(SYS_PRINT, Len(Texts), Len(Texts[Len(Texts)])), Call(SYS_HALT, 0, 0)>>
PanicRip == Len(program) + 2
Current == Code[regs.rip]

\* The syscall instruction (external).
Syscall ==
    /\ pc = "user" /\ Current.op = "call"
    /\ LET args == [regs EXCEPT !.rax = Current.rax, !.rdi = Current.rdi, !.rsi = Current.rsi]
       IN  /\ before' = args
           /\ regs' = [args EXCEPT !.rcx = regs.rip + 1, !.r11 = regs.rflags, !.rflags = 0,
                                   !.cs = StarSyscall, !.ss = StarSyscall + 8]
    /\ pc' = "callback" /\ ip' = 1
    /\ UNCHANGED <<mem, USER_RSP, fixed, consoleVars>>

\* Mutant: print! drops the result.
AfterCallIgnores ==
    /\ pc = "returned"
    /\ pc' = "user"
    /\ UNCHANGED <<machine, fixed, before, consoleVars>>

\* print!(...).unwrap(): an error code of Print is a panic of the process, unless it is its
\* panic handler that prints.
AfterCall ==
    /\ pc = "returned"
    /\ regs' = IF before.rax = SYS_PRINT /\ regs.rax < 0 /\ before.rip # PanicRip
               THEN [regs EXCEPT !.rip = PanicRip] ELSE regs
    /\ pc' = "user"
    /\ UNCHANGED <<ip, mem, USER_RSP, fixed, before, consoleVars>>

Panics ==
    /\ PanicBegins /\ pc' = "panic"
    /\ UNCHANGED <<ip, mem, USER_RSP, fixed, before, screen, cursor, locked, serial, out, text>>

\* An exception handler is a panic!, on a stack of its own and, as its gate is an interrupt
\* gate, with interrupts off.
Faults == Panics /\ regs' = [regs EXCEPT !.rflags = 0]

UsePorts ==
    /\ pc = "user" /\ Current.op = "ports" /\ MayAccess(Current.port, Current.size)
    /\ regs' = [regs EXCEPT !.rip = @ + 1]
    /\ UNCHANGED <<pc, ip, mem, USER_RSP, fixed, before, consoleVars>>

\* general_protection_fault
PortsRefused ==
    /\ pc = "user" /\ Current.op = "ports" /\ ~MayAccess(Current.port, Current.size)
    /\ Faults

----------------------------------------------------------------------------
(* The kernel                                                               *)

Instruction == syscall_callback[ip]

Step ==
    /\ pc = "callback" /\ Instruction.op \notin {"call", "sysretq"}
    /\ ip' = ip + 1
    /\ regs' = CASE Instruction.op = "push" -> [regs EXCEPT !.rsp = @ - 1]
                 [] Instruction.op = "pop"  -> [regs EXCEPT ![Instruction.reg] = mem[regs.rsp],
                                                            !.rsp = @ + 1]
                 [] OTHER                   -> Effect(Instruction.op)
    /\ mem' = IF Instruction.op = "push"
              THEN [mem EXCEPT ![regs.rsp - 1] = regs[Instruction.reg]] ELSE mem
    /\ USER_RSP' = IF Instruction.op = "save_rsp" THEN regs.rsp ELSE USER_RSP
    /\ UNCHANGED <<pc, fixed, before, consoleVars>>

\* syscall_handler returns: it may have changed every register that a callee need not
\* preserve.
Returns(code) ==
    /\ regs' = [regs EXCEPT !.rax = code, !.rcx = Junk, !.rdx = Junk, !.rsi = Junk, !.rdi = Junk,
                            !.r8 = Junk, !.r11 = Junk]
    /\ ip' = ip + 1
    /\ pc' = "callback"

Calling == pc = "callback" /\ Instruction.op = "call"
Argument(i) == mem[regs.rsi + i]

\* NonNull::new and try_from_user. The process's buffers are strings of its own, mapped and
\* valid UTF-8; the other refusals are in module Process.
BadBuffer == Argument(0) = 0 \/ Argument(1) = 0

\* The checks with which Map and Unmap begin.
PagesError ==
    IF Argument(0) % 4096 # 0 THEN -3 ELSE IF Argument(1) = 0 THEN -4 ELSE 0

HandlerRefusesPrint ==
    /\ Calling /\ regs.rdi = SYS_PRINT /\ BadBuffer
    /\ Returns(-1)
    /\ UNCHANGED <<mem, USER_RSP, fixed, before, consoleVars>>

HandlerPrints ==
    /\ Calling /\ regs.rdi = SYS_PRINT /\ ~BadBuffer
    /\ out' = <<ToVga(SubSeq(Texts[Argument(0)], 1, Argument(1)))>>
    /\ pc' = "print"
    /\ UNCHANGED <<machine, fixed, before, screen, cursor, locked, serial, panic, text>>

PrintDone ==
    /\ pc = "print" /\ out = <<>>
    /\ Returns(0)
    /\ UNCHANGED <<mem, USER_RSP, fixed, before, consoleVars>>

HandlerRefusesPages ==
    /\ Calling /\ regs.rdi \in {SYS_MAP, SYS_UNMAP} /\ PagesError # 0
    /\ Returns(PagesError)
    /\ UNCHANGED <<mem, USER_RSP, fixed, before, consoleVars>>

\* What Map does is in module Process.
HandlerMaps ==
    /\ Calling /\ regs.rdi = SYS_MAP /\ PagesError = 0
    /\ \E code \in {0, -3} : Returns(code)
    /\ UNCHANGED <<mem, USER_RSP, fixed, before, consoleVars>>

HandlerHalts ==
    /\ Calling /\ regs.rdi = SYS_HALT
    /\ out' = info(HaltMessage)
    /\ pc' = "halt"
    /\ UNCHANGED <<machine, fixed, before, screen, cursor, locked, serial, panic, text>>

HaltDone ==
    /\ pc = "halt" /\ out = <<>>
    /\ pc' = "halted" /\ regs' = [regs EXCEPT !.rflags = 0]
    /\ UNCHANGED <<ip, mem, USER_RSP, fixed, before, consoleVars>>

\* from_u64(id).unwrap(), and the todo!() of Unmap: interrupts stay on until halt.
HandlerPanics ==
    /\ Calling
    /\ regs.rdi \notin {SYS_HALT, SYS_MAP, SYS_PRINT}
    /\ regs.rdi = SYS_UNMAP => PagesError = 0
    /\ Panics /\ UNCHANGED regs

Writes ==
    /\ pc \in {"print", "halt"} /\ Output
    /\ UNCHANGED <<pc, machine, fixed, before>>

\* sysretq (external): back to ring 3 with the selectors that STAR gives.
Sysret ==
    /\ pc = "callback" /\ Instruction.op = "sysretq"
    /\ regs' = [regs EXCEPT !.rip = regs.rcx, !.rflags = regs.r11,
                            !.cs = StarSysret + 16, !.ss = StarSysret + 8]
    /\ pc' = "returned" /\ ip' = 0
    /\ UNCHANGED <<mem, USER_RSP, fixed, before, consoleVars>>

Ring3 == pc \in {"user", "returned"}

\* An interrupt, from its arrival to the handler's iretq: from ring 3 it is taken on the stack
\* of the TSS, else on the stack in use, as no IRQ gate has an IST index. The handler
\* preserves the registers and does not touch the console; what it does is in Interrupts.
Irq ==
    /\ Ring3 \/ pc \in {"callback", "print", "halt", "panic"}
    /\ regs.rflags = 1
    /\ LET top == IF Ring3 THEN SYSCALL_STACK ELSE regs.rsp
       IN  mem' = [a \in DOMAIN mem |-> IF a \in top - IrqWords .. top - 1 THEN IrqWord ELSE mem[a]]
    /\ UNCHANGED <<pc, ip, regs, USER_RSP, fixed, before, consoleVars>>

\* An exception: one of the process's, or an NMI or machine check at any time. One more during
\* the panic is left out.
Exception ==
    /\ pc \notin {"panic", "halted"}
    /\ Faults

PanicWrites ==
    /\ pc = "panic" /\ PanicOutput
    /\ UNCHANGED <<pc, machine, fixed, before>>

PanicHalts ==
    /\ pc = "panic" /\ PanicDone
    /\ pc' = "halted" /\ regs' = [regs EXCEPT !.rflags = 0]
    /\ UNCHANGED <<ip, mem, USER_RSP, fixed, before, consoleVars>>

Handler ==
    \/ HandlerRefusesPrint \/ HandlerPrints \/ HandlerRefusesPages \/ HandlerMaps
    \/ HandlerHalts \/ HandlerPanics
Cpu ==
    \/ RunByPid \/ Syscall \/ AfterCall \/ UsePorts \/ PortsRefused
    \/ Step \/ Handler \/ Writes \/ PrintDone \/ HaltDone \/ Sysret
    \/ PanicWrites \/ PanicHalts
Next == Cpu \/ Irq \/ Exception

\* The CPU goes on executing; interrupts and exceptions may never come.
Spec == Init /\ [][Next]_vars /\ WF_vars(Cpu)

----------------------------------------------------------------------------
\* What the process has to find unchanged: its stack pointer and callee-saved registers, the
\* arguments, its flags and its segments.
Preserved == {"rsp", "rbx", "rdi", "rsi", "rdx", "rflags", "cs", "ss"}

\* A system call returns to the instruction after it, with the preserved registers, the
\* segments of jump_usermode and the words on the process's stack as they were, wherever
\* interrupts came in between (syscall.rs syscall_callback, setup_syscall; gdt.rs).
SyscallPreserves ==
    pc = "returned" =>
        /\ regs.rip = before.rip + 1
        /\ \A r \in Preserved : regs[r] = before[r]
        /\ \A a \in UserStack : a >= UserRsp => mem[a] = UserWord(a)

\* Once the process runs, it can use a group of ports exactly when every one of them was
\* granted: what the CPU reads in two bytes is what set_port_range_usable wrote bit by bit, for
\* groups that cross into the next byte, for ranges that begin or end inside one, and for the
\* last ports, which only the byte behind the bitmap keeps from reaching beyond it (tss.rs).
PortsAsGranted ==
    Ring3 => \A port \in 0 .. Ports - 1, size \in {1, 2, 4} :
                MayAccess(port, size) <=> port .. port + size - 1 \subseteq FirstPort .. LastPort

\* A panic is reported in full on the screen and on the serial port and the machine stops with
\* interrupts off, also when the panic came in the middle of a write, with the console's
\* locks held (lang.rs panic_fmt).
PanicReported ==
    pc = "panic" ~> (pc = "halted" /\ PanicShown /\ regs.rflags = 0)

\* The safety half of it: a machine that has stopped after a panic shows all of its message.
PanicLegible == (pc = "halted" /\ panic # NoPanic) => (PanicShown /\ regs.rflags = 0)

\* What main prints up to the first call of print that fails, and then the panic message of
\* the process.
Fails(o) == o.op = "call" /\ o.rax = SYS_PRINT /\ (o.rdi = 0 \/ o.rsi = 0)
Printed(o) == IF o.op = "call" /\ o.rax = SYS_PRINT THEN SubSeq(Texts[o.rdi], 1, o.rsi) ELSE <<>>
UserText ==
    LET fails == {i \in DOMAIN program : Fails(program[i])}
        n == IF fails = {} THEN Len(program) ELSE Min(fails) - 1
    IN  FlattenSeq([i \in 1 .. n |-> Printed(program[i])])
        \o (IF fails = {} THEN <<>> ELSE Texts[Len(Texts)])

\* The machine always comes to a stop; without a panic of the kernel, all that the process
\* printed is out by then, its own panic message included, and the log line of Halt follows:
\* _start calls halt after main, and so does the panic handler that an unwrap in print! ends
\* in (libwolffia, libwolffia_macros).
ProgramHalts ==
    <>(pc = "halted" /\ (panic = NoPanic => text = UserText \o Label \o HaltMessage \o Newline))

\* A system call does not write to the process's stack, neither above nor below its stack
\* pointer.
SyscallNoStack == \A a \in UserStack : mem[a] = UserWord(a)

=============================================================================
